---------------------------- MODULE Spec2Model ----------------------------
(***************************************************************************)
(* A model of the UltraStar chart generator (src/ultrastar_generator.py):  *)
(* the beat quantizer time_to_beats, the pitch mapper frequency_to_midi,   *)
(* the note grouper smooth_pitch_data / finalize_note_group, the           *)
(* serializer generate_ultrastar_file and the pipeline process_files.      *)
(*                                                                         *)
(* Numbers.  The code computes with floats; the model computes with exact  *)
(* rationals over integers:                                                *)
(*   - a time (seconds in the code) is an integer number of ticks, one     *)
(*     tick being 1/UnitsPerMs milliseconds;                               *)
(*   - a tempo (bpm) is an integer number of 1/BpmDen beats per minute;    *)
(*   - a confidence is an integer number of hundredths;                    *)
(*   - a frequency is an integer number of Hz.                             *)
(* Python's round() rounds a tie to the even neighbour: RoundHalfEven.     *)
(***************************************************************************)
EXTENDS Integers, Sequences, FiniteSets, TLC

\* ------------------------------------------------------------ resolution
\* Ticks per millisecond (the resolution of a time value).
UnitsPerMs == 2
\* Tempo inputs are multiples of 1/TempoRes bpm; the candidate multipliers
\* 0.25 and 0.5 of estimate_bpm need two more binary places.
TempoRes == 4
BpmDen == 4 * TempoRes
Bpm(x) == x * BpmDen

\* ------------------------------------------------------------ arithmetic
Max(a, b) == IF a >= b THEN a ELSE b
Min(a, b) == IF a <= b THEN a ELSE b
Abs(a) == IF a >= 0 THEN a ELSE -a
\* x milliseconds in ticks
Ms(x) == x * UnitsPerMs
\* the sequences over S of length at most n
SeqsUpTo(S, n) == UNION {[1..k -> S] : k \in 0..n}

\* round(n / d) for d > 0, as Python rounds: to nearest, a tie to even.
RoundHalfEven(n, d) ==
    LET q == n \div d
        r == n % d
    IN  IF 2 * r < d THEN q
        ELSE IF 2 * r > d THEN q + 1
        ELSE IF q % 2 = 0 THEN q ELSE q + 1

\* int(x) for x = n / d, d > 0: truncation toward zero.
IntTrunc(n, d) == IF n >= 0 THEN n \div d ELSE -((-n) \div d)

\* ------------------------------------------------------------ time_to_beats
\* A mutant: the early return for times at or before GAP is dropped and the
\* result is not clamped.
time_to_beats_unclamped(time_seconds, bpm, gap_ms, beat_factor) ==
    RoundHalfEven((time_seconds - gap_ms * UnitsPerMs) * bpm * beat_factor,
                  UnitsPerMs * BpmDen * 60000)

\* A mutant: instead of returning 0 at or before GAP, the distance to GAP is
\* taken as an absolute value.
time_to_beats_abs(time_seconds, bpm, gap_ms, beat_factor) ==
    RoundHalfEven(Abs(time_seconds - gap_ms * UnitsPerMs) * bpm * beat_factor,
                  UnitsPerMs * BpmDen * 60000)

\* time_ms = time_seconds * 1000; 0 when time_ms <= gap_ms; otherwise
\* max(0, int(round((time_ms - gap_ms) * bpm / (60000 / beat_factor)))).
time_to_beats(time_seconds, bpm, gap_ms, beat_factor) ==
    LET time_ms_ticks == time_seconds
        gap_ticks == gap_ms * UnitsPerMs
    IN  IF time_ms_ticks <= gap_ticks THEN 0
        ELSE Max(0, RoundHalfEven((time_ms_ticks - gap_ticks) * bpm * beat_factor,
                                  UnitsPerMs * BpmDen * 60000))

\* A mutant: the lower clamp max(1, ...) is dropped.
duration_to_beats_noclamp(duration, bpm, beat_factor) ==
    time_to_beats(duration, bpm, 0, beat_factor)

\* duration_beats = max(1, time_to_beats(duration, bpm, 0, beat_factor))
duration_to_beats(duration, bpm, beat_factor) ==
    Max(1, time_to_beats(duration, bpm, 0, beat_factor))

\* ------------------------------------------------------------ frequency_to_midi
\* np.log2 in fixed point: f/440 = 2^e * m with 1 <= m < 2, then LogSteps
\* fractional bits of log2(m) by repeated squaring.
LogOne == 2^14
LogSteps == 13

RECURSIVE Log2Norm(_, _, _)
Log2Norm(num, den, e) ==
    IF num >= 2 * den THEN Log2Norm(num, 2 * den, e + 1)
    ELSE IF num < den THEN Log2Norm(2 * num, den, e - 1)
    ELSE <<num, den, e>>

RECURSIVE Log2Bits(_, _, _)
Log2Bits(m, bits, i) ==
    IF i = 0 THEN bits
    ELSE LET sq == (m * m) \div LogOne
         IN  IF sq >= 2 * LogOne
             THEN Log2Bits(sq \div 2, 2 * bits + 1, i - 1)
             ELSE Log2Bits(sq, 2 * bits, i - 1)

\* log2(num / den) * 2^LogSteps, rounded down.
Log2Fixed(num, den) ==
    LET nrm == Log2Norm(num, den, 0)
        m == (nrm[1] * LogOne) \div nrm[2]
    IN  nrm[3] * 2^LogSteps + Log2Bits(m, 0, LogSteps)

\* int(round(69 + 12 * log2(f / 440) - 48)): the value is never a tie (it is
\* irrational unless f / 440 is a power of two), so round is floor(x + 1/2).
ultrastar_note(frequency) ==
    (43 * 2^LogSteps + 24 * Log2Fixed(frequency, 440)) \div (2 * 2^LogSteps)

\* A mutant: the result is not limited to the UltraStar range.
frequency_to_midi_unbounded(frequency) ==
    IF frequency <= 0 THEN 0 ELSE ultrastar_note(frequency)

frequency_to_midi(frequency) ==
    IF frequency <= 0 THEN 0
    ELSE Max(0, Min(36, ultrastar_note(frequency)))

\* ------------------------------------------------------------ smooth_pitch_data
\* A pitch sample is <<time, frequency, confidence>>; a grouped sample is
\* <<time, frequency, midi_note, confidence>>; a note is <<start_time,
\* duration, midi>>.  None is the empty sequence, a note n is <<n>>.
RECURSIVE SeqMin(_)
SeqMin(s) == IF Len(s) = 1 THEN s[1] ELSE Min(s[1], SeqMin(Tail(s)))
RECURSIVE SeqMax(_)
SeqMax(s) == IF Len(s) = 1 THEN s[1] ELSE Max(s[1], SeqMax(Tail(s)))
RECURSIVE SeqSum(_)
SeqSum(s) == IF s = <<>> THEN 0 ELSE s[1] + SeqSum(Tail(s))

\* A mutant: a group whose span equals the minimum duration is dropped too.
finalize_note_group_strict(group, min_duration) ==
    IF group = <<>> THEN <<>>
    ELSE LET times == [k \in 1..Len(group) |-> group[k][1]]
             midis == [k \in 1..Len(group) |-> group[k][3]]
             confidences == [k \in 1..Len(group) |-> group[k][4]]
             duration == SeqMax(times) - SeqMin(times)
         IN  IF duration <= min_duration THEN <<>>
             ELSE << <<SeqMin(times), duration,
                       Max(0, Min(36, RoundHalfEven(
                           SeqSum([k \in 1..Len(group) |->
                                      midis[k] * confidences[k]]),
                           SeqSum(confidences))))>> >>

\* A mutant: the pitch is the plain average of the group, not the average
\* weighted by confidence.
finalize_note_group_unweighted(group, min_duration) ==
    IF group = <<>> THEN <<>>
    ELSE LET times == [k \in 1..Len(group) |-> group[k][1]]
             midis == [k \in 1..Len(group) |-> group[k][3]]
             duration == SeqMax(times) - SeqMin(times)
         IN  IF duration < min_duration THEN <<>>
             ELSE << <<SeqMin(times), duration,
                       Max(0, Min(36, RoundHalfEven(SeqSum(midis),
                                                    Len(group))))>> >>

\* A mutant: a group shorter than min_duration is not dropped, its note is
\* stretched to min_duration.
finalize_note_group_stretched(group, min_duration) ==
    IF group = <<>> THEN <<>>
    ELSE LET times == [k \in 1..Len(group) |-> group[k][1]]
             midis == [k \in 1..Len(group) |-> group[k][3]]
             confidences == [k \in 1..Len(group) |-> group[k][4]]
             duration == Max(SeqMax(times) - SeqMin(times), min_duration)
         IN  << <<SeqMin(times), duration,
                  Max(0, Min(36, RoundHalfEven(
                      SeqSum([k \in 1..Len(group) |-> midis[k] * confidences[k]]),
                      SeqSum(confidences))))>> >>

\* Lines 258-283
finalize_note_group(group, min_duration) ==
    IF group = <<>> THEN <<>>
    ELSE LET times == [k \in 1..Len(group) |-> group[k][1]]
             midis == [k \in 1..Len(group) |-> group[k][3]]
             confidences == [k \in 1..Len(group) |-> group[k][4]]
             start_time == SeqMin(times)
             end_time == SeqMax(times)
             duration == end_time - start_time
         IN  IF duration < min_duration THEN <<>>
             ELSE LET weighted == SeqSum([k \in 1..Len(group) |->
                                             midis[k] * confidences[k]])
                      midi_final == Max(0, Min(36, RoundHalfEven(weighted,
                                                      SeqSum(confidences))))
                  IN  << <<start_time, duration, midi_final>> >>

\* A mutant: a sample with exactly the threshold confidence is kept.
StrongPitch_atleast(sample) == sample[3] >= 25

\* c > 0.25
StrongPitch(sample) == sample[3] > 25

\* A mutant: a time gap of exactly 300 ms starts a new note.
StartsNewNote_atgap(time, midi_note, last_time, last_midi) ==
    \/ time - last_time >= Ms(300)
    \/ Abs(midi_note - last_midi) > 2

\* A mutant: a pitch difference of exactly 2 semitones starts a new note.
StartsNewNote_attwo(time, midi_note, last_time, last_midi) ==
    \/ time - last_time > Ms(300)
    \/ Abs(midi_note - last_midi) >= 2

\* Line 238: time - last_time > 0.3 or abs(midi_note - last_midi) > 2
StartsNewNote(time, midi_note, last_time, last_midi) ==
    \/ time - last_time > Ms(300)
    \/ Abs(midi_note - last_midi) > 2

\* Lines 228-253: the scan over filtered_data from index k on, with the notes
\* and the open group so far; groups is a history of the scan: the groups
\* closed so far, in order.
RECURSIVE SmoothScan(_, _, _, _, _, _)
SmoothScan(filtered_data, k, notes, groups, current_group, min_duration) ==
    IF k > Len(filtered_data)
    THEN IF current_group # <<>>
         THEN [notes |-> notes \o finalize_note_group(current_group, min_duration),
               groups |-> Append(groups, current_group)]
         ELSE [notes |-> notes, groups |-> groups]
    ELSE LET time == filtered_data[k][1]
             freq == filtered_data[k][2]
             confidence == filtered_data[k][3]
             midi_note == frequency_to_midi(freq)
             sample == <<time, freq, midi_note, confidence>>
         IN  IF current_group = <<>>
             THEN SmoothScan(filtered_data, k + 1, notes, groups, <<sample>>,
                             min_duration)
             ELSE LET last_time == current_group[Len(current_group)][1]
                      last_midi == current_group[Len(current_group)][3]
                  IN  IF StartsNewNote(time, midi_note, last_time, last_midi)
                      THEN SmoothScan(filtered_data, k + 1,
                                      notes \o finalize_note_group(current_group,
                                                                   min_duration),
                                      Append(groups, current_group),
                                      <<sample>>, min_duration)
                      ELSE SmoothScan(filtered_data, k + 1, notes, groups,
                                      Append(current_group, sample), min_duration)

\* Lines 211-256: the notes, and the groups the scan went through.
SmoothTrace(pitch_data, min_duration) ==
    IF pitch_data = <<>> THEN [notes |-> <<>>, groups |-> <<>>]
    ELSE LET filtered_data == SelectSeq(pitch_data, StrongPitch)
         IN  IF filtered_data = <<>> THEN [notes |-> <<>>, groups |-> <<>>]
             ELSE SmoothScan(filtered_data, 1, <<>>, <<>>, <<>>, min_duration)

\* Lines 211-256
smooth_pitch_data(pitch_data, min_duration) ==
    SmoothTrace(pitch_data, min_duration).notes

\* ------------------------------------------------------------ estimate_bpm
\* Lines 305-311: base_tempo * multiplier for the multipliers 0.25, 0.5, 1, 2,
\* 4 (in quarters: 1, 2, 4, 8, 16), kept when 60 <= candidate <= 400.
BpmCandidates(tempo1, tempo2) ==
    LET all == [k \in 1..10 |->
                   ((IF k <= 5 THEN tempo1 ELSE tempo2)
                    * <<1, 2, 4, 8, 16>>[((k - 1) % 5) + 1]) \div 4]
        plausible(c) == Bpm(60) <= c /\ c <= Bpm(400)
    IN  SelectSeq(all, plausible)

\* Lines 318-336
BpmScore(bpm) ==
    (IF Bpm(120) <= bpm /\ bpm <= Bpm(140) THEN 10
     ELSE IF Bpm(140) <= bpm /\ bpm <= Bpm(180) THEN 15
     ELSE IF Bpm(180) <= bpm /\ bpm <= Bpm(220) THEN 20
     ELSE IF Bpm(220) <= bpm /\ bpm <= Bpm(280) THEN 25
     ELSE 0)
    + (IF Bpm(250) <= bpm /\ bpm <= Bpm(270) THEN 20 ELSE 0)
    + (IF bpm % Bpm(10) = 0 THEN 5 ELSE 0)

\* Lines 314-340: the first candidate of the highest score.
RECURSIVE BestBpm(_, _, _, _)
BestBpm(candidates, k, best_bpm, best_score) ==
    IF k > Len(candidates) THEN best_bpm
    ELSE IF BpmScore(candidates[k]) > best_score
         THEN BestBpm(candidates, k + 1, candidates[k], BpmScore(candidates[k]))
         ELSE BestBpm(candidates, k + 1, best_bpm, best_score)

\* A mutant: a failed tempo call yields no tempo (0) instead of the fallback.
estimate_bpm_nofallback(tempo) ==
    IF tempo = <<>> THEN 0
    ELSE BestBpm(BpmCandidates(tempo[1], tempo[2]), 1, tempo[1], -1)

\* Lines 285-347.  tempo is what the tempo calls gave: <<tempo1, tempo2>>, or
\* <<>> when one of them raised.
estimate_bpm(tempo) ==
    IF tempo = <<>> THEN Bpm(264)
    ELSE BestBpm(BpmCandidates(tempo[1], tempo[2]), 1, tempo[1], -1)

\* ------------------------------------------------------------ reverse_engineer_timing
\* A line of a reference chart, as far as lines 46-58 look at it: what it
\* starts with ("#BPM:", "#GAP:", ":" or anything else), the number of its
\* whitespace-separated parts, whether its numbers convert (float() for #BPM,
\* int() for #GAP and for the beat, duration and pitch of a note line), and
\* the number (the tempo, the gap, or the start beat of the note).
RefLine(kind, parts, ok, value) ==
    [kind |-> kind, parts |-> parts, ok |-> ok, value |-> value]

\* The reference_file argument: whether a file is named, whether it exists,
\* whether it can be opened and decoded, and its lines.
NoReference == [named |-> FALSE, exists |-> FALSE, readable |-> FALSE, lines |-> <<>>]
AbsentReference == [named |-> TRUE, exists |-> FALSE, readable |-> FALSE, lines |-> <<>>]
ReferenceChart(lines) ==
    [named |-> TRUE, exists |-> TRUE, readable |-> TRUE, lines |-> lines]

\* Lines 78-87: the first factor of 1, 2, 4, 8 for which beat_diff beats last
\* 200 to 1000 ms (expected_ms = beat_diff * 60000 / (bpm * factor)); 0 when
\* there is none.
FirstPlausibleFactor(beat_diff, bpm) ==
    LET ok(factor) ==
            IF bpm > 0
            THEN /\ 200 * bpm * factor <= beat_diff * 60000 * BpmDen
                 /\ beat_diff * 60000 * BpmDen <= 1000 * bpm * factor
            ELSE /\ 200 * bpm * factor >= beat_diff * 60000 * BpmDen
                 /\ beat_diff * 60000 * BpmDen >= 1000 * bpm * factor
    IN  IF ok(1) THEN 1 ELSE IF ok(2) THEN 2 ELSE IF ok(4) THEN 4
        ELSE IF ok(8) THEN 8 ELSE 0

\* A mutant: a line whose number does not convert is skipped, and the lines
\* read before and after it count.
RECURSIVE ReadLines_skipbad(_, _, _, _, _)
ReadLines_skipbad(lines, k, bpm, has_gap, beats) ==
    IF k > Len(lines)
    THEN [ok |-> TRUE, bpm |-> bpm, has_gap |-> has_gap, beats |-> beats]
    ELSE LET line == lines[k]
         IN  IF ~line.ok
             THEN ReadLines_skipbad(lines, k + 1, bpm, has_gap, beats)
             ELSE IF line.kind = "#BPM:"
             THEN ReadLines_skipbad(lines, k + 1, line.value, has_gap, beats)
             ELSE IF line.kind = "#GAP:"
             THEN ReadLines_skipbad(lines, k + 1, bpm, TRUE, beats)
             ELSE IF line.kind = ":" /\ line.parts >= 4
             THEN ReadLines_skipbad(lines, k + 1, bpm, has_gap,
                                    Append(beats, line.value))
             ELSE ReadLines_skipbad(lines, k + 1, bpm, has_gap, beats)

\* Lines 42-58: the scan over the lines from line k on, with the tempo (0:
\* none read), whether a gap was read, and the start beats read so far.  A
\* number that does not convert raises, which ends the scan: ok is FALSE.
RECURSIVE ReadLines(_, _, _, _, _)
ReadLines(lines, k, bpm, has_gap, beats) ==
    IF k > Len(lines)
    THEN [ok |-> TRUE, bpm |-> bpm, has_gap |-> has_gap, beats |-> beats]
    ELSE LET line == lines[k]
         IN  IF line.kind = "#BPM:"
             THEN IF line.ok
                  THEN ReadLines(lines, k + 1, line.value, has_gap, beats)
                  ELSE [ok |-> FALSE, bpm |-> bpm, has_gap |-> has_gap,
                        beats |-> beats]
             ELSE IF line.kind = "#GAP:"
             THEN IF line.ok
                  THEN ReadLines(lines, k + 1, bpm, TRUE, beats)
                  ELSE [ok |-> FALSE, bpm |-> bpm, has_gap |-> has_gap,
                        beats |-> beats]
             ELSE IF line.kind = ":" /\ line.parts >= 4
             THEN IF line.ok
                  THEN ReadLines(lines, k + 1, bpm, has_gap,
                                 Append(beats, line.value))
                  ELSE [ok |-> FALSE, bpm |-> bpm, has_gap |-> has_gap,
                        beats |-> beats]
             ELSE ReadLines(lines, k + 1, bpm, has_gap, beats)

\* Lines 28-94: the beat_factor of the result.  Every exception raised from
\* line 39 on is caught at line 91, and line 94 returns the default.
reverse_engineer_timing(reference) ==
    IF ~reference.named \/ ~reference.exists THEN 4
    ELSE IF ~reference.readable THEN 4
    ELSE LET read == ReadLines(reference.lines, 1, 0, FALSE, <<>>)
         IN  IF ~read.ok THEN 4
             ELSE IF read.beats # <<>> /\ read.bpm # 0 /\ read.has_gap
             THEN IF /\ Len(read.beats) >= 2
                     /\ FirstPlausibleFactor(read.beats[2] - read.beats[1],
                                             read.bpm) # 0
                  THEN FirstPlausibleFactor(read.beats[2] - read.beats[1],
                                            read.bpm)
                  ELSE 4
             ELSE 4

\* ------------------------------------------------------------ parse_lyrics
\* The text of the lyrics file is a sequence of pieces, each a run of
\* characters: "[", "]", two digits a colon and two digits ("00:12"), two
\* digits ("50"), the punctuation characters, a whitespace character, and
\* words of letters.  <<"unreadable">> stands for a file whose read raises.
IsSpace(piece) == piece = " "
IsPunctuation(piece) == piece \in {".", ",", "!", "?", ";", ":"}
IsMinSec(piece) == piece = "00:12"
IsHundredths(piece) == piece = "50"

\* The length of the match of \[\d{2}:\d{2}(?:\.\d{2})?\] that starts at
\* piece k of text, 0 if there is none.
TimestampAt(text, k) ==
    IF k + 2 <= Len(text) /\ text[k] = "[" /\ IsMinSec(text[k + 1])
       /\ text[k + 2] = "]" THEN 3
    ELSE IF k + 4 <= Len(text) /\ text[k] = "[" /\ IsMinSec(text[k + 1])
            /\ text[k + 2] = "." /\ IsHundredths(text[k + 3])
            /\ text[k + 4] = "]" THEN 5
    ELSE 0

\* Line 359: re.sub(pattern, '', content), one pass from the left over the
\* matches that do not overlap, from piece k on.
RECURSIVE RemoveTimestamps(_, _)
RemoveTimestamps(text, k) ==
    IF k > Len(text) THEN <<>>
    ELSE IF TimestampAt(text, k) > 0
         THEN RemoveTimestamps(text, k + TimestampAt(text, k))
         ELSE <<text[k]>> \o RemoveTimestamps(text, k + 1)

\* Line 362: content.split(): the maximal runs of pieces that are not
\* whitespace.
RECURSIVE SplitWords(_, _, _)
SplitWords(text, k, word) ==
    IF k > Len(text) THEN (IF word = <<>> THEN <<>> ELSE <<word>>)
    ELSE IF IsSpace(text[k])
         THEN (IF word = <<>> THEN <<>> ELSE <<word>>) \o SplitWords(text, k + 1, <<>>)
         ELSE SplitWords(text, k + 1, Append(word, text[k]))

\* Line 363: word.strip('.,!?;:'): the punctuation at both ends goes.
RECURSIVE StripPunctuation(_)
StripPunctuation(word) ==
    IF word = <<>> THEN <<>>
    ELSE IF IsPunctuation(word[1]) THEN StripPunctuation(Tail(word))
    ELSE IF IsPunctuation(word[Len(word)])
         THEN StripPunctuation(SubSeq(word, 1, Len(word) - 1))
    ELSE word

\* the string made of the pieces of a word
RECURSIVE JoinPieces(_)
JoinPieces(word) ==
    IF word = <<>> THEN "" ELSE word[1] \o JoinPieces(Tail(word))

\* Lines 349-368: the words after the substitution and the split, the
\* syllables as pieces, and the list returned.
LyricsTrace(content) ==
    IF content = <<"unreadable">>
    THEN [raised |-> TRUE, words |-> <<>>, syllables |-> <<>>, lyrics |-> <<>>]
    ELSE LET words == SplitWords(RemoveTimestamps(content, 1), 1, <<>>)
             syllables == [k \in 1..Len(words) |-> StripPunctuation(words[k])]
         IN  [raised |-> FALSE, words |-> words, syllables |-> syllables,
              lyrics |-> [k \in 1..Len(words) |-> JoinPieces(syllables[k])]]

parse_lyrics(content) == LyricsTrace(content).lyrics

\* ------------------------------------------------------------ chart lines
\* A line of the chart file is the sequence of its fields.
\* "#KEY:value"
HeaderLine(key, value) == <<"#", key, value>>
\* the empty line written after the header
BlankLine == <<>>
\* "- beat"
PauseLine(beat) == <<"-", beat>>
\* A mutant: duration and pitch are written in each other's place.
NoteLine_swapped(note_type, beat, duration, midi, text) ==
    <<note_type, beat, midi, duration, text>>
\* "type beat duration midi text"
NoteLine(note_type, beat, duration, midi, text) ==
    <<note_type, beat, duration, midi, text>>
\* "E"
EndLine == <<"E">>

\* f"{bpm:.1f}": the tempo in tenths, rounded to nearest, a tie to even.
FormatBpm(bpm) == RoundHalfEven(bpm * 10, BpmDen)

IsNoteLine(line) == Len(line) = 5
IsPauseLine(line) == Len(line) = 2
IsEventLine(line) == IsNoteLine(line) \/ IsPauseLine(line)
IsHeaderLine(line) == Len(line) = 3
LineBeat(line) == line[2]

\* ------------------------------------------------------------ the text of the chart file
\* The text written by the f.write calls, as a sequence of pieces: single
\* characters ("#", ":", "*", "-", " ", ".", the digits, the line end) and
\* the strings put in as they are (keys, title, artist, file name, syllable).
DigitChars == <<"0", "1", "2", "3", "4", "5", "6", "7", "8", "9">>
LineEnd == "\n"

\* str(n) of an integer
RECURSIVE Digits(_)
Digits(n) ==
    IF n < 0 THEN <<"-">> \o Digits(-n)
    ELSE IF n < 10 THEN <<DigitChars[n + 1]>>
    ELSE Append(Digits(n \div 10), DigitChars[(n % 10) + 1])

\* f"{bpm:.1f}" of a tempo given in tenths
BpmText(tenths) == Digits(tenths \div 10) \o <<".">> \o Digits(tenths % 10)

\* Lines 431-437, 446, 461, 465: the text of one line, without its line end.
LineText(line) ==
    IF IsHeaderLine(line)
    THEN <<"#", line[2], ":">>
         \o (IF line[2] = "BPM" THEN BpmText(line[3])
             ELSE IF line[2] \in {"GAP", "END"} THEN Digits(line[3])
             ELSE <<line[3]>>)
    ELSE IF IsPauseLine(line) THEN <<"-", " ">> \o Digits(line[2])
    ELSE IF IsNoteLine(line)
         THEN <<line[1], " ">> \o Digits(line[2]) \o <<" ">> \o Digits(line[3])
              \o <<" ">> \o Digits(line[4]) \o <<" ", line[5]>>
    ELSE line

\* the text of the file: every line followed by its line end
RECURSIVE FileText(_)
FileText(lines) ==
    IF lines = <<>> THEN <<>>
    ELSE LineText(lines[1]) \o <<LineEnd>> \o FileText(Tail(lines))

\* ------------------------------------------------------------ UltraStarParser.parse_file
IsWhitespace(piece) == piece \in {" ", LineEnd}

\* for line in f: the text up to each line end
RECURSIVE TextLines(_, _)
TextLines(text, line) ==
    IF text = <<>> THEN (IF line = <<>> THEN <<>> ELSE <<line>>)
    ELSE IF text[1] = LineEnd THEN <<line>> \o TextLines(Tail(text), <<>>)
    ELSE TextLines(Tail(text), Append(line, text[1]))

\* line.strip()
RECURSIVE StripLine(_)
StripLine(line) ==
    IF line = <<>> THEN <<>>
    ELSE IF IsWhitespace(line[1]) THEN StripLine(Tail(line))
    ELSE IF IsWhitespace(line[Len(line)])
         THEN StripLine(SubSeq(line, 1, Len(line) - 1))
    ELSE line

\* line.split()
RECURSIVE SplitLine(_, _)
SplitLine(line, part) ==
    IF line = <<>> THEN (IF part = <<>> THEN <<>> ELSE <<part>>)
    ELSE IF IsWhitespace(line[1])
         THEN (IF part = <<>> THEN <<>> ELSE <<part>>) \o SplitLine(Tail(line), <<>>)
         ELSE SplitLine(Tail(line), Append(part, line[1]))

\* int(s): whether it raises, and its value
IsDigit(piece) == \E d \in 1..10 : DigitChars[d] = piece
IsIntText(part) ==
    LET digits == IF part # <<>> /\ part[1] = "-" THEN Tail(part) ELSE part
    IN  digits # <<>> /\ \A k \in 1..Len(digits) : IsDigit(digits[k])
RECURSIVE NatOf(_)
NatOf(digits) ==
    IF digits = <<>> THEN 0
    ELSE 10 * NatOf(SubSeq(digits, 1, Len(digits) - 1))
         + ((CHOOSE d \in 1..10 : DigitChars[d] = digits[Len(digits)]) - 1)
IntOf(part) == IF part[1] = "-" THEN -NatOf(Tail(part)) ELSE NatOf(part)

\* ' '.join(parts[4:])
RECURSIVE JoinParts(_)
JoinParts(parts) ==
    IF parts = <<>> THEN <<>>
    ELSE IF Len(parts) = 1 THEN parts[1]
    ELSE parts[1] \o <<" ">> \o JoinParts(Tail(parts))

\* the place of the first ":" in a text, 0 if there is none
FirstColon(text) ==
    IF \E k \in 1..Len(text) : text[k] = ":"
    THEN CHOOSE k \in 1..Len(text) :
             text[k] = ":" /\ \A j \in 1..(k - 1) : text[j] # ":"
    ELSE 0

ParsedNote(note_type, beat, duration, pitch, text) ==
    [type |-> note_type, beat |-> beat, duration |-> duration, pitch |-> pitch,
     text |-> text]

\* A mutant: the beat of a pause is not read from the line.
PauseBeat_zero(parts) == 0

\* Line 55: int(line.split()[1]) if len(line.split()) > 1 else 0
PauseBeat(parts) == IF Len(parts) > 1 THEN IntOf(parts[2]) ELSE 0

\* Lines 27-62: one line of the file; parsed is what has been read so far.
\* A line whose key has no colon, or whose number is no integer, raises.
ParseLine(parsed, raw) ==
    LET line == StripLine(raw)
        parts == SplitLine(line, <<>>)
    IN  IF parsed.raised \/ line = <<>> THEN parsed
        ELSE IF line[1] = "#"
        THEN LET rest == Tail(line)
                 colon == FirstColon(rest)
             IN  IF colon = 0 THEN [parsed EXCEPT !.raised = TRUE]
                 ELSE [parsed EXCEPT !.metadata =
                          (SubSeq(rest, 1, colon - 1)
                               :> SubSeq(rest, colon + 1, Len(rest))) @@ @]
        ELSE IF line[1] \in {":", "*", "F"}
        THEN IF Len(parts) >= 4
             THEN IF \A k \in 2..4 : IsIntText(parts[k])
                  THEN [parsed EXCEPT !.notes = Append(@,
                           ParsedNote(parts[1][1], IntOf(parts[2]), IntOf(parts[3]),
                                      IntOf(parts[4]),
                                      JoinParts(SubSeq(parts, 5, Len(parts)))))]
                  ELSE [parsed EXCEPT !.raised = TRUE]
             ELSE parsed
        ELSE IF line[1] = "-"
        THEN IF Len(parts) > 1 /\ ~IsIntText(parts[2])
             THEN [parsed EXCEPT !.raised = TRUE]
             ELSE [parsed EXCEPT !.notes = Append(@,
                      ParsedNote("-", PauseBeat(parts), 0, 0, <<>>))]
        ELSE parsed

RECURSIVE ParseLines(_, _)
ParseLines(parsed, lines) ==
    IF lines = <<>> THEN parsed
    ELSE ParseLines(ParseLine(parsed, lines[1]), Tail(lines))

\* Lines 21-67: parse_file on a file with the given text.
parse_file(text) ==
    ParseLines([metadata |-> [key \in {} |-> <<>>], notes |-> <<>>,
                raised |-> FALSE],
               TextLines(text, <<>>))

\* ------------------------------------------------------------ sorting
\* list.sort(key=lambda x: x[0]): a stable sort by start beat.
RECURSIVE InsertByBeat(_, _)
InsertByBeat(sorted, n) ==
    IF sorted = <<>> THEN <<n>>
    ELSE IF sorted[Len(sorted)][1] <= n[1] THEN Append(sorted, n)
    ELSE Append(InsertByBeat(SubSeq(sorted, 1, Len(sorted) - 1), n),
                sorted[Len(sorted)])

RECURSIVE SortByBeat(_)
\* A mutant: the sort is left out.
SortByBeat_unsorted(s) == s

SortByBeat(s) ==
    IF s = <<>> THEN <<>>
    ELSE InsertByBeat(SortByBeat(SubSeq(s, 1, Len(s) - 1)), s[Len(s)])

\* ------------------------------------------------------------ state
VARIABLES
    tb,     \* a pair of calls of time_to_beats: arguments and results
    fm,     \* a pair of calls of frequency_to_midi: arguments and results
    rt,     \* a call of reverse_engineer_timing: argument and result
    sp,     \* a call of smooth_pitch_data: arguments and result
    pl,     \* a call of parse_lyrics: argument, words and result
    call,   \* generate_ultrastar_file: its arguments
    loc,    \* generate_ultrastar_file: its local variables
    pc,     \* generate_ultrastar_file: where it stands
    ret,    \* generate_ultrastar_file: its return value
    disk,   \* the file at output_file: whether it exists, its lines, open() calls
    log,    \* history: one record for each note the writing loop has handled
    hist,   \* history: the file before the first call, and its lines at each return
    env,    \* process_files: its arguments and the files they name
    pf,     \* process_files: its local variables and its return value
    ppc,    \* process_files: where it stands
    ui,     \* the GUI: widgets and fields that the UI thread reads and writes
    wk,     \* the GUI: the worker threads started so far, each with its position
    clock,  \* the GUI: the callbacks given to Clock.schedule_once, oldest first
    runs    \* history: what each accepted press validated, read, got and showed;
            \* the selections are kept until the reset_ui of the run

vars == <<tb, fm, rt, sp, pl, call, loc, pc, ret, disk, log, hist, env, pf, ppc,
         ui, wk, clock, runs>>

NoCall == [pc |-> "idle"]
NoFile == [exists |-> FALSE, lines |-> <<>>, opened |-> 0]
NoLocals == [gap_ms |-> 0, beat_notes |-> <<>>, end_time_ms |-> 0,
             i |-> 0, lyrics_index |-> 0, last_beat |-> 0]

NoHist == [prior |-> NoFile, written |-> <<>>]

GenIdle ==
    /\ call = NoCall /\ loc = NoLocals /\ pc = "idle" /\ ret = <<>> /\ disk = NoFile
    /\ log = <<>> /\ hist = NoHist
genVars == <<call, loc, pc, ret, disk, log, hist>>

NoRun == [title |-> "", artist |-> "", beat_factor |-> 0, tempo_failed |-> FALSE,
          bpm |-> 0, pitch_data |-> <<>>, notes |-> <<>>, lyrics |-> <<>>,
          result |-> <<>>]
RunIdle == env = NoCall /\ pf = NoRun /\ ppc = "idle"
runVars == <<env, pf, ppc>>

GuiIdle == ui = NoCall /\ wk = <<>> /\ clock = <<>> /\ runs = <<>>
guiVars == <<ui, wk, clock, runs>>

\* ------------------------------------------------------------ generate_ultrastar_file
\* A mutant: the lower clamp max(0, ...) is dropped.
GapOf_unclamped(notes) == IntTrunc(notes[1][1], UnitsPerMs) - 500

\* gap_ms = max(0, int(first_note_time * 1000) - 500)
GapOf(notes) == Max(0, IntTrunc(notes[1][1], UnitsPerMs) - 500)

\* the (start_beat, duration_beats, midi) of every note, sorted by start beat
BeatNotesOf(notes, bpm, gap_ms, beat_factor) ==
    LET conv == [k \in 1..Len(notes) |->
                    <<time_to_beats(notes[k][1], bpm, gap_ms, beat_factor),
                      duration_to_beats(notes[k][2], bpm, beat_factor),
                      notes[k][3]>>]
        valid(n) == n[1] >= 0
    IN  SortByBeat(SelectSeq(conv, valid))

\* end_time_ms = int((last_note[0] + last_note[1]) * 1000)
EndTimeOf(notes) ==
    IntTrunc(notes[Len(notes)][1] + notes[Len(notes)][2], UnitsPerMs)

\* output_dir / f"{title} - {artist}.txt"; the empty string is <<>>.
OutputFile(title, artist) == <<title, " - ", artist, ".txt">>

\* A mutant: the separator line after the header is left out.
HeaderLines_noblank(title, artist, audio_filename, bpm, gap_ms, end_time_ms) ==
    << HeaderLine("TITLE", title), HeaderLine("ARTIST", artist),
       HeaderLine("MP3", audio_filename), HeaderLine("BPM", FormatBpm(bpm)),
       HeaderLine("GAP", gap_ms), HeaderLine("END", end_time_ms) >>

\* Lines 431-437: the header and the empty line after it.
HeaderLines(title, artist, audio_filename, bpm, gap_ms, end_time_ms) ==
    << HeaderLine("TITLE", title), HeaderLine("ARTIST", artist),
       HeaderLine("MP3", audio_filename), HeaderLine("BPM", FormatBpm(bpm)),
       HeaderLine("GAP", gap_ms), HeaderLine("END", end_time_ms),
       BlankLine >>

\* Line 457
NoteType(duration, midi) == IF duration > 6 \/ midi > 25 THEN "*" ELSE ":"

\* A mutant: a note without text is written too.
NoteLines_always(beat, duration, midi, text) ==
    <<NoteLine(NoteType(duration, midi), beat, duration, midi, text)>>

\* Lines 459-461: the note is written only if it has text.
NoteLines(beat, duration, midi, text) ==
    IF text # ""
    THEN <<NoteLine(NoteType(duration, midi), beat, duration, midi, text)>>
    ELSE <<>>

\* A mutant: the file is opened for appending, so what it held stays.
OpenForWrite_append(file) ==
    [exists |-> TRUE, lines |-> file.lines, opened |-> file.opened + 1]

\* Line 429: open(output_file, 'w') creates the file, or empties the one that
\* is there.
OpenForWrite(file) ==
    [exists |-> TRUE, lines |-> <<>>, opened |-> file.opened + 1]

\* Lines 396-437: the empty-input returns, GAP, beats, END, open(output_file,
\* 'w') and the header.
GenBegin ==
    /\ pc = "call"
    /\ IF call.notes = <<>>
       THEN /\ pc' = "returned" /\ ret' = <<>>
            /\ UNCHANGED <<loc, disk>>
       ELSE LET gap_ms == GapOf(call.notes)
                beat_notes == BeatNotesOf(call.notes, call.bpm, gap_ms, call.beat_factor)
            IN  IF beat_notes = <<>>
                THEN /\ pc' = "returned" /\ ret' = <<>>
                     /\ UNCHANGED <<loc, disk>>
                ELSE /\ loc' = [gap_ms |-> gap_ms, beat_notes |-> beat_notes,
                                end_time_ms |-> EndTimeOf(call.notes),
                                i |-> 0, lyrics_index |-> 0, last_beat |-> 0]
                     /\ disk' = [OpenForWrite(disk) EXCEPT !.lines =
                                    @ \o HeaderLines(call.title, call.artist,
                                             call.audio_filename, call.bpm, gap_ms,
                                             EndTimeOf(call.notes))]
                     /\ pc' = "loop" /\ UNCHANGED ret
    /\ UNCHANGED <<call, log, hist, tb, fm, rt, sp, pl, guiVars, runVars>>

\* A mutant: the stride of the placeholder is counted from the note at which
\* the syllables ran out, not from the first note.
TextFor_fromend(i, lyrics_index, lyrics) ==
    IF lyrics_index < Len(lyrics) THEN lyrics[lyrics_index + 1]
    ELSE IF (i - Len(lyrics)) % 20 = 0 THEN "~"
    ELSE ""

\* Lines 448-454: the text of note i.
TextFor(i, lyrics_index, lyrics) ==
    IF lyrics_index < Len(lyrics) THEN lyrics[lyrics_index + 1]
    ELSE IF i % 20 = 0 THEN "~"
    ELSE ""

\* Lines 443-463: one iteration of the writing loop, for beat_notes[i].
GenNote ==
    /\ pc = "loop"
    /\ loc.i < Len(loc.beat_notes)
    /\ LET beat == loc.beat_notes[loc.i + 1][1]
           duration == loc.beat_notes[loc.i + 1][2]
           midi == loc.beat_notes[loc.i + 1][3]
           paused == beat - loc.last_beat > 10
           text == TextFor(loc.i, loc.lyrics_index, call.lyrics)
           pause_lines == IF paused THEN <<PauseLine(loc.last_beat + 1)>> ELSE <<>>
           note_lines == NoteLines(beat, duration, midi, text)
       IN  /\ disk' = [disk EXCEPT !.lines = @ \o pause_lines \o note_lines]
           /\ loc' = [loc EXCEPT !.i = @ + 1,
                                 !.lyrics_index = IF @ < Len(call.lyrics)
                                                  THEN @ + 1 ELSE @,
                                 !.last_beat = beat + duration]
           /\ log' = Append(log, [i |-> loc.i, beat |-> beat, duration |-> duration,
                                  midi |-> midi, text |-> text,
                                  last_beat |-> loc.last_beat,
                                  paused |-> paused,
                                  lines |-> pause_lines \o note_lines])
    /\ UNCHANGED <<call, pc, ret, hist, tb, fm, rt, sp, pl, guiVars, runVars>>

\* Lines 465-468: the end marker, the close of the file and the return.
GenEnd ==
    /\ pc = "loop"
    /\ loc.i = Len(loc.beat_notes)
    /\ disk' = [disk EXCEPT !.lines = Append(@, EndLine)]
    /\ pc' = "returned"
    /\ ret' = OutputFile(call.title, call.artist)
    /\ hist' = [hist EXCEPT !.written = Append(@, Append(disk.lines, EndLine))]
    /\ UNCHANGED <<call, loc, log, tb, fm, rt, sp, pl, guiVars, runVars>>

\* What an exception that leaves generate_ultrastar_file does to the caller:
\* process_files catches nothing, so the exception leaves it too.
RaisedIn(at) == IF at = "generate" THEN "raised" ELSE at

\* Line 429: open() raises (no permission, no directory): no file is made and
\* a file that is there is not touched.
GenOpenFail ==
    /\ pc = "call"
    /\ call.notes # <<>>
    /\ BeatNotesOf(call.notes, call.bpm, GapOf(call.notes), call.beat_factor) # <<>>
    /\ pc' = "raised"
    /\ ppc' = RaisedIn(ppc)
    /\ UNCHANGED <<call, loc, ret, disk, log, hist, tb, fm, rt, sp, pl, guiVars, env, pf>>

\* Lines 429-437: the file is opened and a write of the header raises (disk
\* full, device error) after written_lines of its lines; the with statement
\* closes the file, which keeps what was written.
GenHeaderFail ==
    /\ pc = "call"
    /\ call.notes # <<>>
    /\ BeatNotesOf(call.notes, call.bpm, GapOf(call.notes), call.beat_factor) # <<>>
    /\ \E written_lines \in 0..6 :
          disk' = [OpenForWrite(disk) EXCEPT !.lines =
                      @ \o SubSeq(HeaderLines(call.title, call.artist,
                                      call.audio_filename, call.bpm,
                                      GapOf(call.notes), EndTimeOf(call.notes)),
                                  1, written_lines)]
    /\ pc' = "raised"
    /\ ppc' = RaisedIn(ppc)
    /\ UNCHANGED <<call, loc, ret, log, hist, tb, fm, rt, sp, pl, guiVars, env, pf>>

\* Lines 443-465: a write of the loop or the write of the end marker raises;
\* the lines written before it stay in the file.
GenWriteFail ==
    /\ pc = "loop"
    /\ IF loc.i < Len(loc.beat_notes)
       THEN LET beat == loc.beat_notes[loc.i + 1][1]
                duration == loc.beat_notes[loc.i + 1][2]
                midi == loc.beat_notes[loc.i + 1][3]
                text == TextFor(loc.i, loc.lyrics_index, call.lyrics)
                pause_lines == IF beat - loc.last_beat > 10
                               THEN <<PauseLine(loc.last_beat + 1)>> ELSE <<>>
                lines == pause_lines \o NoteLines(beat, duration, midi, text)
            IN  /\ lines # <<>>
                /\ \E written_lines \in 0..(Len(lines) - 1) :
                      disk' = [disk EXCEPT !.lines =
                                  @ \o SubSeq(lines, 1, written_lines)]
       ELSE UNCHANGED disk
    /\ pc' = "raised"
    /\ ppc' = RaisedIn(ppc)
    /\ UNCHANGED <<call, loc, ret, log, hist, tb, fm, rt, sp, pl, guiVars, env, pf>>

\* ------------------------------------------------------------ main
\* A mutant: main does not look for the audio file.
AudioCheck_skipped(audio_exists) == "start"

\* Lines 558-560: main returns when the audio file does not exist.
AudioCheck(audio_exists) == IF audio_exists THEN "start" ELSE "aborted"

\* Lines 556-569: the check of the audio file, and the call of process_files.
Main ==
    /\ ppc = "main"
    /\ ppc' = AudioCheck(env.audio_exists)
    /\ UNCHANGED <<env, pf, genVars, tb, fm, rt, sp, pl, guiVars>>

\* ------------------------------------------------------------ process_files
\* Lines 476-490: the default title and artist, and the beat_factor of the
\* reference file.
PStart ==
    /\ ppc = "start"
    /\ pf' = [pf EXCEPT !.title = IF env.title = "" THEN env.audio_stem
                                  ELSE env.title,
                        !.artist = IF env.artist = "" THEN "Unknown Artist"
                                   ELSE env.artist,
                        !.beat_factor = reverse_engineer_timing(env.reference)]
    /\ ppc' = "separate"
    /\ UNCHANGED <<env, genVars, tb, fm, rt, sp, pl, guiVars>>

\* Lines 492-494: separate_vocals returns the vocals, or the audio as it is
\* when the separation raised; when the audio cannot be loaded either (it
\* does not exist, or it does not decode), the exception leaves process_files.
PSeparate ==
    /\ ppc = "separate"
    /\ \E loaded \in BOOLEAN :
          /\ loaded => env.audio_exists
          /\ ppc' = IF loaded THEN "bpm" ELSE "raised"
    /\ UNCHANGED <<env, pf, genVars, tb, fm, rt, sp, pl, guiVars>>

\* What the tempo calls of estimate_bpm give: <<tempo1, tempo2>> (beat_track,
\* and 120 or 60 / median onset interval), or <<>> when one of them raises.
TempoResults ==
    { <<>>,
      <<Bpm(500) + BpmDen \div 2, Bpm(120)>>,
      <<0, Bpm(32)>> }

\* Lines 496-498
PEstimateBpm ==
    /\ ppc = "bpm"
    /\ \E tempo \in TempoResults :
          pf' = [pf EXCEPT !.bpm = estimate_bpm(tempo),
                           !.tempo_failed = (tempo = <<>>)]
    /\ ppc' = "pitch"
    /\ UNCHANGED <<env, genVars, tb, fm, rt, sp, pl, guiVars>>

\* What detect_pitch can return: samples in ascending time, each with a
\* frequency > 0 and a confidence > 0.15; [] when it found none or raised.
\* The times are multiples of 0.25 s, which floats hold exactly.
MaxSamples == 6
SampleSteps ==
    { <<Ms(250), 110, 90>>,
      <<Ms(250), 440, 50>>,
      <<Ms(500), 139, 20>> }
FirstSampleTimes == {0, Ms(750)}
RECURSIVE SamplesFrom(_, _)
SamplesFrom(time, steps) ==
    IF steps = <<>> THEN <<>>
    ELSE <<<<time, steps[1][2], steps[1][3]>>>>
         \o SamplesFrom(time + steps[1][1], Tail(steps))
PitchResults ==
    { SamplesFrom(t0, steps) :
        t0 \in FirstSampleTimes, steps \in SeqsUpTo(SampleSteps, MaxSamples) }

\* Lines 500-505
PDetectPitch ==
    /\ ppc = "pitch"
    /\ \E pitch_data \in PitchResults :
          /\ pf' = [pf EXCEPT !.pitch_data = pitch_data]
          /\ ppc' = IF pitch_data = <<>> THEN "done" ELSE "smooth"
    /\ UNCHANGED <<env, genVars, tb, fm, rt, sp, pl, guiVars>>

\* A mutant: process_files goes on to the serializer with an empty note list.
AfterSmooth_goes_on(notes) == "lyrics"

\* Lines 512-514: return None when no note was extracted.
AfterSmooth(notes) == IF notes = <<>> THEN "done" ELSE "lyrics"

\* Lines 509-514
PSmooth ==
    /\ ppc = "smooth"
    /\ LET notes == smooth_pitch_data(pf.pitch_data, Ms(400))
       IN  /\ pf' = [pf EXCEPT !.notes = notes]
           /\ ppc' = AfterSmooth(notes)
    /\ UNCHANGED <<env, genVars, tb, fm, rt, sp, pl, guiVars>>

\* Lines 518-529: the lyrics, if a lyrics file is named and exists, and the
\* call of generate_ultrastar_file.
PGenerate ==
    /\ ppc = "lyrics"
    /\ LET lyrics == IF env.lyrics_file # <<"absent">>
                     THEN parse_lyrics(env.lyrics_file) ELSE <<>>
       IN  /\ pf' = [pf EXCEPT !.lyrics = lyrics]
           /\ call' = [pc |-> "call", notes |-> pf.notes, lyrics |-> lyrics,
                       title |-> pf.title, artist |-> pf.artist,
                       audio_filename |-> env.audio_name,
                       bpm |-> pf.bpm, beat_factor |-> pf.beat_factor]
    /\ pc' = "call"
    /\ ppc' = "generate"
    /\ UNCHANGED <<env, loc, ret, disk, log, hist, tb, fm, rt, sp, pl, guiVars>>

\* Lines 531-544: the path of the chart, or None (here <<>>) when
\* generate_ultrastar_file returned the empty string.
PReturn ==
    /\ ppc = "generate"
    /\ pc = "returned"
    /\ pf' = [pf EXCEPT !.result = ret]
    /\ ppc' = "done"
    /\ UNCHANGED <<env, genVars, tb, fm, rt, sp, pl, guiVars>>

\* ------------------------------------------------------------ ultrastar_gui
\* the number of presses of the generate button that are accepted
MaxGuiRuns == 2
\* selected_file = None of a file card
NoSelection == "None"
\* the files the file manager can give, and whether a path exists on disk
AudioFiles == {"song.mp3"}
LyricsFiles == {"song.txt"}
ReferenceFiles == {"ref.txt"}
PathExists(path) == path \in {"song.mp3", "song.txt", "ref.txt"}
FileCards == {"audio", "lyrics", "reference"}
CardFiles(card) ==
    IF card = "audio" THEN AudioFiles
    ELSE IF card = "lyrics" THEN LyricsFiles ELSE ReferenceFiles
\* a callback given to Clock.schedule_once by the worker of run
Callback(kind, value, run) == [kind |-> kind, value |-> value, run |-> run]
\* lambda dt: update_progress(value, ...).  The log_message callbacks that
\* follow change the text of the log only, which is not part of the state;
\* they are left out of the clock.
ProgressCallbacks(value, run) == <<Callback("progress", value, run)>>

\* Lines 103-108: FileCard.on_file_selected
OnFileSelected(card, path) ==
    /\ ui.alive
    /\ ui' = [ui EXCEPT ![card] = path]
    /\ UNCHANGED <<wk, clock, runs>>
    /\ UNCHANGED <<tb, fm, rt, sp, pl, genVars, runVars>>

\* Lines 110-114: FileCard.clear_file
ClearFile(card) ==
    /\ ui.alive
    /\ ui' = [ui EXCEPT ![card] = NoSelection]
    /\ UNCHANGED <<wk, clock, runs>>
    /\ UNCHANGED <<tb, fm, rt, sp, pl, genVars, runVars>>

\* Lines 467-476: reset_form.  The texts of the fields, of the labels and of
\* the log are not part of the state.
ResetForm ==
    /\ ui.alive
    /\ ui' = [ui EXCEPT !.audio = NoSelection, !.lyrics = NoSelection,
                        !.reference = NoSelection, !.progress = 0]
    /\ UNCHANGED <<wk, clock, runs>>
    /\ UNCHANGED <<tb, fm, rt, sp, pl, genVars, runVars>>

\* A mutant: the early return on self.processing is dropped.
AcceptsPress_always(processing) == TRUE

\* Lines 364-365: if self.processing: return
AcceptsPress(processing) == ~processing

\* Lines 362-386: start_generation, run for a press of the generate button.
\* The handler is taken to run for every press, also one that comes while
\* the button is disabled.  The press is ignored during a run, answered with
\* an error dialog if the audio selection is missing or not on disk, and
\* otherwise accepted: a worker thread is started.
StartGeneration ==
    /\ ui.alive
    /\ IF ~AcceptsPress(ui.processing)
       THEN UNCHANGED <<ui, wk, clock, runs>>
       ELSE IF ui.audio = NoSelection \/ ~PathExists(ui.audio)
       THEN UNCHANGED <<ui, wk, clock, runs>>
       ELSE /\ Len(wk) < MaxGuiRuns
            /\ ui' = [ui EXCEPT !.processing = TRUE, !.disabled = TRUE,
                                !.progress = 0]
            /\ wk' = Append(wk, [pc |-> "collect", audio_path |-> NoSelection,
                                 lyrics_path |-> NoSelection,
                                 reference_path |-> NoSelection, result |-> ""])
            /\ runs' = Append(runs, [validated |-> <<ui.audio, ui.lyrics, ui.reference>>,
                                     read |-> <<>>, result |-> "", dialogs |-> <<>>,
                                     progress_100 |-> FALSE, reset |-> FALSE])
            /\ UNCHANGED clock
    /\ UNCHANGED <<tb, fm, rt, sp, pl, genVars, runVars>>

\* A step of worker id: its new position, its result, and the callbacks it
\* gives to the clock.
WorkerGoes(id, next_pc, result, callbacks) ==
    /\ wk' = [wk EXCEPT ![id].pc = next_pc, ![id].result = result]
    /\ clock' = clock \o callbacks
    /\ runs' = [runs EXCEPT ![id].result = result]
    /\ UNCHANGED ui
    /\ UNCHANGED <<tb, fm, rt, sp, pl, genVars, runVars>>

\* Lines 391-399 and generator line 480: the worker reads the selections
\* and gives the first progress callback to the clock;
\* Path(audio_path) raises if the audio selection is None.
WCollect(id) ==
    /\ ui.alive /\ wk[id].pc = "collect"
    /\ wk' = [wk EXCEPT ![id].pc = IF ui.audio = NoSelection THEN "outcome"
                                   ELSE "separate",
                         ![id].result = IF ui.audio = NoSelection THEN "raised"
                                       ELSE "",
                         ![id].audio_path = ui.audio,
                         ![id].lyrics_path = ui.lyrics,
                         ![id].reference_path = ui.reference]
    /\ clock' = Append(clock, Callback("progress", 10, id))
    /\ runs' = [runs EXCEPT ![id].read = <<ui.audio, ui.lyrics, ui.reference>>,
                            ![id].result = IF ui.audio = NoSelection THEN "raised"
                                          ELSE ""]
    /\ UNCHANGED ui
    /\ UNCHANGED <<tb, fm, rt, sp, pl, genVars, runVars>>

\* Lines 407-410 and generator lines 96-124: separate_vocals; it raises when
\* librosa.load fails in the fallback too.
WSeparate(id) ==
    /\ ui.alive /\ wk[id].pc = "separate"
    /\ \E loaded \in BOOLEAN :
          /\ loaded => PathExists(wk[id].audio_path)
          /\ IF loaded
             THEN WorkerGoes(id, "bpm", "", ProgressCallbacks(20, id))
             ELSE WorkerGoes(id, "outcome", "raised", ProgressCallbacks(20, id))

\* Lines 412-415: estimate_bpm
WEstimateBpm(id) ==
    /\ ui.alive /\ wk[id].pc = "bpm"
    /\ WorkerGoes(id, "pitch", "", ProgressCallbacks(40, id))

\* Lines 417-420 and generator lines 500-505: detect_pitch; process_files
\* returns None if no pitch was found.
WDetectPitch(id) ==
    /\ ui.alive /\ wk[id].pc = "pitch"
    /\ \E found \in BOOLEAN :
          IF found THEN WorkerGoes(id, "smooth", "", ProgressCallbacks(60, id))
          ELSE WorkerGoes(id, "outcome", "none", ProgressCallbacks(60, id))

\* Lines 422-425 and generator lines 509-514: smooth_pitch_data;
\* process_files returns None if no note is left.
WSmooth(id) ==
    /\ ui.alive /\ wk[id].pc = "smooth"
    /\ \E found \in BOOLEAN :
          IF found THEN WorkerGoes(id, "generate", "", ProgressCallbacks(80, id))
          ELSE WorkerGoes(id, "outcome", "none", ProgressCallbacks(80, id))

\* Lines 427-430 and generator lines 517-544: parse_lyrics if the lyrics
\* path is given and exists, then generate_ultrastar_file, which returns the
\* path, returns "" or raises.
WGenerate(id) ==
    /\ ui.alive /\ wk[id].pc = "generate"
    /\ \E result \in {"path", "none", "raised"} :
          WorkerGoes(id, "outcome", result,
                     IF wk[id].lyrics_path # NoSelection /\ PathExists(wk[id].lyrics_path)
                     THEN ProgressCallbacks(90, id) ELSE <<>>)

\* Lines 436-446: the callbacks for the outcome.  Those of the except branch
\* use the name e of the except clause, which is unbound when they run.
WOutcome(id) ==
    /\ ui.alive /\ wk[id].pc = "outcome"
    /\ WorkerGoes(id, "finally", wk[id].result,
                  IF wk[id].result = "path"
                  THEN <<Callback("progress", 100, id), Callback("success", 0, id)>>
                  ELSE IF wk[id].result = "none"
                  THEN <<Callback("error", 0, id)>>
                  ELSE <<Callback("error_e", 0, id)>>)

\* Lines 448-450: finally, the reset_ui callback; the thread ends and its
\* local variables with it.
WFinally(id) ==
    /\ ui.alive /\ wk[id].pc = "finally"
    /\ wk' = [wk EXCEPT ![id] = [pc |-> "ended", audio_path |-> NoSelection,
                                 lyrics_path |-> NoSelection,
                                 reference_path |-> NoSelection, result |-> ""]]
    /\ clock' = Append(clock, Callback("reset_ui", 0, id))
    /\ UNCHANGED <<ui, runs>>
    /\ UNCHANGED <<tb, fm, rt, sp, pl, genVars, runVars>>

WorkerStep ==
    \E id \in 1..Len(wk) :
        \/ WCollect(id) \/ WSeparate(id) \/ WEstimateBpm(id) \/ WDetectPitch(id)
        \/ WSmooth(id) \/ WGenerate(id) \/ WOutcome(id) \/ WFinally(id)

\* The UI thread runs the oldest callback of the clock: update_progress
\* (lines 452-455), show_success, show_error, reset_ui (lines 461-465).  The
\* callback of the except branch raises NameError when it reads e, before
\* show_error is called; nothing catches it, and the main loop of the
\* application ends.
ClockTick ==
    /\ ui.alive /\ clock # <<>>
    /\ LET cb == Head(clock)
       IN  /\ clock' = Tail(clock)
           /\ ui' = IF cb.kind = "progress" THEN [ui EXCEPT !.progress = cb.value]
                    ELSE IF cb.kind = "reset_ui"
                    THEN [ui EXCEPT !.processing = FALSE, !.disabled = FALSE]
                    ELSE IF cb.kind = "error_e"
                    THEN [ui EXCEPT !.alive = FALSE]
                    ELSE ui
           /\ runs' = IF cb.kind \in {"success", "error"}
                      THEN [runs EXCEPT ![cb.run].dialogs = Append(@, cb.kind)]
                      ELSE IF cb.kind = "progress" /\ cb.value = 100
                      THEN [runs EXCEPT ![cb.run].progress_100 = TRUE]
                      ELSE IF cb.kind = "reset_ui"
                      THEN [runs EXCEPT ![cb.run].reset = TRUE,
                                        ![cb.run].validated = <<>>,
                                        ![cb.run].read = <<>>]
                      ELSE runs
    /\ UNCHANGED wk
    /\ UNCHANGED <<tb, fm, rt, sp, pl, genVars, runVars>>

\* ------------------------------------------------------------ SpecBeat
\* Calls of time_to_beats (and of the duration conversion) on two times.
MaxTimeIdx == 40
TimeStep == 100
BeatTimes == {k * TimeStep : k \in 0..MaxTimeIdx}
BeatBpms == {Bpm(60), Bpm(150), Bpm(264), Bpm(400)}
BeatGaps == {0, 225, 500}
BeatFactors == {1, 2, 4, 8}

InitBeat ==
    /\ tb \in [pc : {"call"}, t1 : BeatTimes, t2 : BeatTimes, bpm : BeatBpms,
               gap_ms : BeatGaps, beat_factor : BeatFactors]
    /\ fm = NoCall /\ rt = NoCall /\ sp = NoCall /\ pl = NoCall /\ GuiIdle
    /\ GenIdle /\ RunIdle

BeatApply ==
    /\ tb.pc = "call"
    /\ tb' = [pc |-> "done", t1 |-> tb.t1, t2 |-> tb.t2, bpm |-> tb.bpm,
              gap_ms |-> tb.gap_ms, beat_factor |-> tb.beat_factor,
              r1 |-> time_to_beats(tb.t1, tb.bpm, tb.gap_ms, tb.beat_factor),
              r2 |-> time_to_beats(tb.t2, tb.bpm, tb.gap_ms, tb.beat_factor),
              d1 |-> duration_to_beats(tb.t1, tb.bpm, tb.beat_factor)]
    /\ UNCHANGED <<fm, rt, sp, pl, guiVars, genVars, runVars>>

NextBeat == BeatApply

SpecBeat == InitBeat /\ [][NextBeat]_vars

\* ------------------------------------------------------------ SpecMidi
\* Calls of frequency_to_midi on two neighbouring frequencies.
MaxFreq == 1300
MaxFreqDelta == 2
MidiFreqs == (-2)..MaxFreq

InitMidi ==
    /\ fm \in [pc : {"call"}, f1 : MidiFreqs, df : 0..MaxFreqDelta]
    /\ tb = NoCall /\ rt = NoCall /\ sp = NoCall /\ pl = NoCall /\ GuiIdle
    /\ GenIdle /\ RunIdle

MidiApply ==
    /\ fm.pc = "call"
    /\ fm' = [pc |-> "done", f1 |-> fm.f1, f2 |-> fm.f1 + fm.df,
              r1 |-> frequency_to_midi(fm.f1),
              r2 |-> frequency_to_midi(fm.f1 + fm.df)]
    /\ UNCHANGED <<tb, rt, sp, pl, guiVars, genVars, runVars>>

NextMidi == MidiApply

SpecMidi == InitMidi /\ [][NextMidi]_vars

\* ------------------------------------------------------------ SpecRef
\* Calls of reverse_engineer_timing: without a reference, with one that does
\* not exist or cannot be read, and with reference charts of up to MaxRefLines
\* lines, well formed or not.
MaxRefLines == 5
RefLineKinds ==
    { RefLine("#BPM:", 1, TRUE, Bpm(264)), RefLine("#BPM:", 1, FALSE, 0),
      RefLine("#GAP:", 1, TRUE, 18680),    RefLine("#GAP:", 1, FALSE, 0),
      RefLine(":", 5, TRUE, 3),  RefLine(":", 5, TRUE, 6),
      RefLine(":", 5, TRUE, 12), RefLine(":", 5, TRUE, 24),
      RefLine(":", 5, FALSE, 0) }
References ==
    { NoReference, AbsentReference,
      [named |-> TRUE, exists |-> TRUE, readable |-> FALSE, lines |-> <<>>] }
    \cup { ReferenceChart(lines) : lines \in SeqsUpTo(RefLineKinds, MaxRefLines) }

InitRef ==
    /\ rt \in [pc : {"call"}, reference : References]
    /\ tb = NoCall /\ fm = NoCall /\ sp = NoCall /\ pl = NoCall /\ GuiIdle
    /\ GenIdle /\ RunIdle

RefApply ==
    /\ rt.pc = "call"
    /\ rt' = [pc |-> "done", reference |-> rt.reference,
              beat_factor |-> reverse_engineer_timing(rt.reference)]
    /\ UNCHANGED <<tb, fm, sp, pl, guiVars, genVars, runVars>>

NextRef == RefApply

SpecRef == InitRef /\ [][NextRef]_vars

\* ------------------------------------------------------------ SpecSmooth
\* Calls of smooth_pitch_data on time-ordered sample streams of up to
\* MaxSmoothSamples samples, with a minimum duration of 0.2 s or 0.4 s (the
\* default).  A sample kind is <<time to the next sample, frequency,
\* confidence>>: 220 Hz maps to 9, 247 Hz to 11, 440 Hz to 21.
MaxSmoothSamples == 5
SmoothSteps ==
    { <<Ms(100), 220, 90>>, <<Ms(300), 220, 90>>, <<Ms(400), 220, 90>>,
      <<Ms(100), 440, 90>>, <<Ms(100), 247, 50>>,
      <<Ms(100), 220, 25>>, <<Ms(100), 220, 20>> }
SmoothStreams ==
    { SamplesFrom(0, steps) : steps \in SeqsUpTo(SmoothSteps, MaxSmoothSamples) }
SmoothMinDurations == {Ms(200), Ms(400)}

InitSmooth ==
    /\ sp \in [pc : {"call"}, pitch_data : SmoothStreams,
                min_duration : SmoothMinDurations]
    /\ tb = NoCall /\ fm = NoCall /\ rt = NoCall /\ pl = NoCall /\ GuiIdle
    /\ GenIdle /\ RunIdle

SmoothApply ==
    /\ sp.pc = "call"
    /\ LET trace == SmoothTrace(sp.pitch_data, sp.min_duration)
       IN  sp' = [pc |-> "done", pitch_data |-> sp.pitch_data,
                  min_duration |-> sp.min_duration,
                  notes |-> trace.notes, groups |-> trace.groups]
    /\ UNCHANGED <<tb, fm, rt, pl, guiVars, genVars, runVars>>

NextSmooth == SmoothApply

SpecSmooth == InitSmooth /\ [][NextSmooth]_vars

\* ------------------------------------------------------------ SpecGen
\* Calls of generate_ultrastar_file on any note list: not sorted by time,
\* overlapping, with fewer or more syllables than notes.
MaxNotes == 3
MaxLyrics == 2
\* Notes <<start_time, duration, midi>>: three start times, a short and a long
\* duration (the long ones overlap the notes that start a second later), a
\* low and a high pitch.
GenNotes ==
    { <<Ms(0), Ms(400), 5>>,     <<Ms(0), Ms(1500), 30>>,
      <<Ms(1000), Ms(400), 30>>, <<Ms(1000), Ms(1500), 5>>,
      <<Ms(3000), Ms(400), 5>>,  <<Ms(3000), Ms(1500), 30>> }
GenWords == {"la", "E", ""}
\* (bpm, beat_factor): one beat a second, and 17.6 beats a second
GenTempos == {<<Bpm(60), 1>>, <<Bpm(264), 4>>}

InitGen ==
    /\ tb = NoCall /\ fm = NoCall /\ rt = NoCall /\ sp = NoCall /\ pl = NoCall /\ GuiIdle
    /\ \E tempo \in GenTempos :
          call \in [pc : {"call"},
                    notes : SeqsUpTo(GenNotes, MaxNotes),
                    lyrics : SeqsUpTo(GenWords, MaxLyrics),
                    title : {"Song"}, artist : {"Unknown Artist"},
                    audio_filename : {"song.mp3"},
                    bpm : {tempo[1]}, beat_factor : {tempo[2]}]
    /\ loc = NoLocals /\ pc = "call" /\ ret = <<>> /\ disk = NoFile /\ log = <<>>
    /\ hist = NoHist
    /\ RunIdle

NextGen ==
    \/ GenBegin \/ GenNote \/ GenEnd
    \/ GenOpenFail \/ GenHeaderFail \/ GenWriteFail

SpecGen == InitGen /\ [][NextGen]_vars

\* ------------------------------------------------------------ SpecWrite
\* Calls of generate_ultrastar_file at an output path that may hold the chart
\* of an earlier run, the call repeated once with the same arguments.
MaxWriteNotes == 2
WriteWords == {"la", ""}

\* The chart an earlier successful run left at the output path.
PriorFile ==
    [exists |-> TRUE,
     lines |-> HeaderLines("Song", "Unknown Artist", "song.mp3", Bpm(120), 0, 900)
               \o <<NoteLine(":", 2, 3, 7, "old"), EndLine>>,
     opened |-> 0]

InitWrite ==
    /\ tb = NoCall /\ fm = NoCall /\ rt = NoCall /\ sp = NoCall /\ pl = NoCall /\ GuiIdle
    /\ \E tempo \in GenTempos :
          call \in [pc : {"call"},
                    notes : SeqsUpTo(GenNotes, MaxWriteNotes),
                    lyrics : SeqsUpTo(WriteWords, MaxLyrics),
                    title : {"Song"}, artist : {"Unknown Artist"},
                    audio_filename : {"song.mp3"},
                    bpm : {tempo[1]}, beat_factor : {tempo[2]}]
    /\ loc = NoLocals /\ pc = "call" /\ ret = <<>> /\ log = <<>>
    /\ disk \in {NoFile, PriorFile}
    /\ hist = [prior |-> disk, written |-> <<>>]
    /\ RunIdle

\* Lines 385-392: the caller calls generate_ultrastar_file again, with the
\* arguments of the call that has written the file.
GenAgain ==
    /\ pc = "returned"
    /\ Len(hist.written) = 1
    /\ pc' = "call"
    /\ loc' = NoLocals /\ ret' = <<>> /\ log' = <<>>
    /\ UNCHANGED <<call, disk, hist, tb, fm, rt, sp, pl, guiVars, runVars>>

NextWrite ==
    \/ GenBegin \/ GenNote \/ GenEnd
    \/ GenOpenFail \/ GenHeaderFail \/ GenWriteFail
    \/ GenAgain

SpecWrite == InitWrite /\ [][NextWrite]_vars

\* ------------------------------------------------------------ SpecLyrics
\* Calls of parse_lyrics on files of up to MaxLyricPieces pieces, and on a
\* file that cannot be read.
MaxLyricPieces == 6
LyricPieces == {"[", "]", "00:12", ".", "50", " ", "la"}
LyricFiles == SeqsUpTo(LyricPieces, MaxLyricPieces) \cup {<<"unreadable">>}

InitLyrics ==
    /\ tb = NoCall /\ fm = NoCall /\ rt = NoCall /\ sp = NoCall /\ GuiIdle
    /\ pl \in [pc : {"call"}, content : LyricFiles]
    /\ GenIdle /\ RunIdle

LyricsApply ==
    /\ pl.pc = "call"
    /\ LET trace == LyricsTrace(pl.content)
       IN  pl' = [pc |-> "done", content |-> pl.content, raised |-> trace.raised,
                  words |-> trace.words, syllables |-> trace.syllables,
                  lyrics |-> parse_lyrics(pl.content)]
    /\ UNCHANGED <<tb, fm, rt, sp, guiVars, genVars, runVars>>

NextLyrics == LyricsApply

SpecLyrics == InitLyrics /\ [][NextLyrics]_vars

\* ------------------------------------------------------------ SpecStride
\* Calls of generate_ultrastar_file on up to MaxStrideNotes notes, one every
\* half second with a silence of a second and a half after the second one,
\* with fewer syllables than notes. The list is given in ascending order of
\* time from 0 ("up"), in ascending order from a little after 1.2 seconds, a
\* time that is not a whole number of milliseconds ("late"), or in descending
\* order ("down").
MaxStrideNotes == 22
MaxStrideLyrics == 3
StrideOrders == {"up", "late", "down"}
StrideTime(j, order) ==
    Ms(500) * (j - 1) + (IF j > 2 THEN Ms(1500) ELSE 0)
                      + (IF order = "late" THEN Ms(1200) + 1 ELSE 0)
StrideNotes(n, order) ==
    [k \in 1..n |-> <<StrideTime(IF order = "down" THEN n + 1 - k ELSE k, order),
                      Ms(400), IF k % 2 = 0 THEN 5 ELSE 30>>]
\* (bpm, beat_factor): 8 beats a second, and 22 beats a second
StrideTempos == {<<Bpm(120), 4>>, <<Bpm(330), 4>>}

InitStride ==
    /\ tb = NoCall /\ fm = NoCall /\ rt = NoCall /\ sp = NoCall /\ pl = NoCall /\ GuiIdle
    /\ \E n \in 1..MaxStrideNotes, order \in StrideOrders, tempo \in StrideTempos :
          call \in [pc : {"call"},
                    notes : {StrideNotes(n, order)},
                    lyrics : SeqsUpTo(WriteWords, MaxStrideLyrics),
                    title : {"Song"}, artist : {"Unknown Artist"},
                    audio_filename : {"song.mp3"},
                    bpm : {tempo[1]}, beat_factor : {tempo[2]}]
    /\ loc = NoLocals /\ pc = "call" /\ ret = <<>> /\ disk = NoFile /\ log = <<>>
    /\ hist = NoHist
    /\ RunIdle

SpecStride == InitStride /\ [][NextGen]_vars

\* ------------------------------------------------------------ SpecGui
\* The GUI: the user selects and clears files and presses the two buttons; up to MaxGuiRuns presses are accepted.
InitGui ==
    /\ tb = NoCall /\ fm = NoCall /\ rt = NoCall /\ sp = NoCall /\ pl = NoCall
    /\ GenIdle /\ RunIdle
    /\ ui = [processing |-> FALSE, disabled |-> FALSE, progress |-> 0,
             audio |-> NoSelection, lyrics |-> NoSelection,
             reference |-> NoSelection, alive |-> TRUE]
    /\ wk = <<>> /\ clock = <<>> /\ runs = <<>>

UserStep ==
    \/ \E card \in FileCards : \E path \in CardFiles(card) : OnFileSelected(card, path)
    \/ \E card \in FileCards : ClearFile(card)
    \/ ResetForm
    \/ StartGeneration

NextGui == UserStep \/ WorkerStep \/ ClockTick

SpecGui == InitGui /\ [][NextGui]_vars

\* The same with the scheduling of the program: a worker thread that can
\* take a step takes it, and the main loop runs the callbacks of the clock.
SpecGuiLive == SpecGui /\ WF_vars(WorkerStep) /\ WF_vars(ClockTick)

\* ------------------------------------------------------------ Spec
\* A run of process_files.
\* A run with nothing but the audio file; a run with a title, an artist, a
\* lyrics file and a reference chart whose notes are 3 beats apart at 264 bpm
\* (beat_factor 1); a run that names a reference file that does not exist;
\* and a run whose audio file does not exist.
Runs ==
    { [title |-> "", artist |-> "", audio_stem |-> "song",
       audio_name |-> "song.mp3", audio_exists |-> TRUE,
       reference |-> NoReference, lyrics_file |-> <<"absent">>],
      [title |-> "", artist |-> "Idina", audio_stem |-> "song",
       audio_name |-> "song.mp3", audio_exists |-> TRUE,
       reference |-> AbsentReference, lyrics_file |-> <<"absent">>],
      [title |-> "", artist |-> "", audio_stem |-> "song",
       audio_name |-> "song.mp3", audio_exists |-> FALSE,
       reference |-> AbsentReference, lyrics_file |-> <<"absent">>],
      [title |-> "Let It Go", artist |-> "Idina", audio_stem |-> "song",
       audio_name |-> "song.mp3", audio_exists |-> TRUE,
       reference |-> ReferenceChart(
                        << RefLine("other", 1, TRUE, 0),
                           RefLine("#BPM:", 1, TRUE, Bpm(264)),
                           RefLine("#GAP:", 1, TRUE, 18680),
                           RefLine(":", 5, TRUE, 0), RefLine(":", 5, TRUE, 3),
                           RefLine(":", 5, TRUE, 6) >>),
       lyrics_file |-> <<"[", "00:12", "]", "la", ",", " ", "E", " ",
                        ".", ".", ".">>] }

Init ==
    /\ tb = NoCall /\ fm = NoCall /\ rt = NoCall /\ sp = NoCall /\ pl = NoCall /\ GuiIdle
    /\ GenIdle
    /\ env \in Runs
    /\ pf = NoRun
    /\ ppc = "main"

Next ==
    \/ Main
    \/ PStart \/ PSeparate \/ PEstimateBpm \/ PDetectPitch \/ PSmooth
    \/ PGenerate \/ GenBegin \/ GenNote \/ GenEnd \/ PReturn
    \/ GenOpenFail \/ GenHeaderFail \/ GenWriteFail

Spec == Init /\ [][Next]_vars

\* ------------------------------------------------------------ claims: time_to_beats
BeatDone == tb.pc = "done"
GapTicks == tb.gap_ms * UnitsPerMs
\* beats before rounding is exactly half way between two integers
IsTie(t) ==
    /\ t > GapTicks
    /\ 2 * (((t - GapTicks) * tb.bpm * tb.beat_factor) % (UnitsPerMs * BpmDen * 60000))
         = UnitsPerMs * BpmDen * 60000

\* C1: for fixed bpm, gap_ms and beat_factor, time_to_beats is monotonic
\* non-decreasing in time_seconds: t2 >= t1 implies
\* time_to_beats(t2) >= time_to_beats(t1), across the GAP boundary and at ties.
C1_Monotonic == BeatDone /\ tb.t2 >= tb.t1 => tb.r2 >= tb.r1

\* A pair of calls with the earlier time exactly at GAP (result 0) and the later
\* time at a rounding tie that rounds to a beat after 0.
C1_Witness ==
    /\ BeatDone /\ tb.gap_ms > 0
    /\ tb.t1 = GapTicks /\ tb.r1 = 0
    /\ tb.t2 > tb.t1 /\ IsTie(tb.t2) /\ tb.r2 > 0

\* C2: time_to_beats returns 0 for every time with t * 1000 <= gap_ms, and a
\* non-negative integer for every other time.
C2_ZeroAtGapNonNegative ==
    BeatDone =>
        /\ (tb.t1 <= GapTicks => tb.r1 = 0)
        /\ (tb.t2 <= GapTicks => tb.r2 = 0)
        /\ tb.r1 \in Nat /\ tb.r2 \in Nat

\* One call strictly before GAP returning 0, one after GAP returning a beat > 0.
C2_Witness ==
    /\ BeatDone
    /\ 0 < tb.t1 /\ tb.t1 < GapTicks /\ tb.r1 = 0
    /\ tb.t2 > GapTicks /\ tb.r2 > 0

\* The shortest duration smooth_pitch_data emits with its default min_duration
\* of 0.4 s, in ticks.
MinDurationTicks == Ms(400)

\* C3 as stated: the duration in beats computed for a note is never less than
\* 2 beats (here for the durations of at least 0.4 s that the note grouper emits).
C3_Original_AtLeastTwo ==
    BeatDone /\ tb.t1 >= MinDurationTicks => tb.d1 >= 2

\* C3 amended: the duration in beats computed for a note is never less than
\* 1 beat, for every note duration, bpm and beat_factor.
C3_AtLeastOne == BeatDone => tb.d1 >= 1

\* A note of at least 0.4 s whose duration quantizes to 0 beats and is raised
\* to the minimum, which is 1.
C3_Witness ==
    /\ BeatDone /\ tb.t1 >= MinDurationTicks
    /\ time_to_beats(tb.t1, tb.bpm, 0, tb.beat_factor) = 0
    /\ tb.d1 = 1

\* ------------------------------------------------------------ claims: frequency_to_midi
MidiDone == fm.pc = "done"

\* C4: frequency_to_midi(f) is 0 for every f <= 0, lies in 0..36 for every f,
\* and is non-decreasing in f for f > 0.
C4_MidiRangeMonotonic ==
    MidiDone =>
        /\ (fm.f1 <= 0 => fm.r1 = 0)
        /\ fm.r1 \in 0..36 /\ fm.r2 \in 0..36
        /\ (fm.f1 > 0 => fm.r2 >= fm.r1)

\* Two neighbouring positive frequencies on either side of a semitone boundary
\* at the top of the range: the upper one maps to 36, and the unclamped value
\* of a frequency above it is beyond 36.
C4_Witness ==
    /\ MidiDone /\ fm.f1 > 0
    /\ fm.r1 = 35 /\ fm.r2 = 36
    /\ ultrastar_note(2 * fm.f2) > 36 /\ frequency_to_midi(2 * fm.f2) = 36

\* ------------------------------------------------------------ claims: generate_ultrastar_file
Returned == pc = "returned"
\* the event lines of the file, in file order
EventLines == SelectSeq(disk.lines, IsEventLine)
WrittenNoteLines == SelectSeq(disk.lines, IsNoteLine)
IsEndLine(line) == Len(line) = 1 /\ line[1] = "E"

\* C5: in every file written by generate_ultrastar_file the event lines (note
\* and pause lines, in file order) are in ascending beat order, for any input
\* note list, also an unsorted or overlapping one.
C5_EventsAscending ==
    \A j, k \in 1..Len(EventLines) :
        j < k => LineBeat(EventLines[j]) <= LineBeat(EventLines[k])

\* A finished file made from a note list that is not sorted by time and holds
\* overlapping notes, with at least two note lines and a pause line.
C5_Witness ==
    /\ Returned /\ Len(call.notes) >= 3
    /\ call.notes[1][1] > call.notes[2][1]
    /\ call.notes[2][1] + call.notes[2][2] > call.notes[1][1]
    /\ Len(WrittenNoteLines) >= 2
    /\ \E k \in 1..Len(EventLines) : IsPauseLine(EventLines[k])

\* the note lines the handled notes with text call for, in order
RECURSIVE ExpectedNoteLines(_)
ExpectedNoteLines(entries) ==
    IF entries = <<>> THEN <<>>
    ELSE LET e == entries[Len(entries)]
         IN  ExpectedNoteLines(SubSeq(entries, 1, Len(entries) - 1))
             \o (IF e.text # ""
                 THEN <<NoteLine(NoteType(e.duration, e.midi), e.beat, e.duration,
                                 e.midi, e.text)>>
                 ELSE <<>>)

\* C6: a note line is written for a note if and only if the text assigned to
\* the note is non-empty (a note with empty text leaves no line, neither an
\* empty nor a placeholder one), and the end beat of every note, written or
\* not, is the last_beat of the following pause check.
C6_LineIffText ==
    /\ WrittenNoteLines = ExpectedNoteLines(log)
    /\ \A k \in 1..Len(log) :
          /\ log[k].last_beat = IF k = 1 THEN 0
                                ELSE log[k - 1].beat + log[k - 1].duration
          /\ log[k].paused = (log[k].beat - log[k].last_beat > 10)
    /\ (log # <<>> => loc.last_beat = log[Len(log)].beat + log[Len(log)].duration)

\* A note without text that left no line, followed by a note with a pause
\* check that started from the textless note's end beat and wrote a pause.
C6_Witness ==
    /\ Returned
    /\ \E k \in 1..(Len(log) - 1) :
          /\ log[k].text = "" /\ log[k].lines = <<>>
          /\ log[k].beat + log[k].duration > 1
          /\ log[k + 1].paused
          /\ log[k + 1].lines[1] = PauseLine(log[k].beat + log[k].duration + 1)
    /\ \E k \in 1..Len(log) : log[k].text # ""

\* C7: every written document is, in this order: the header lines #TITLE,
\* #ARTIST, #MP3, #BPM (the tempo to one decimal), #GAP (an integer), #END (an
\* integer); one blank line; the event lines; and the end marker E as the last
\* line, which is no earlier line.
C7_DocumentShape ==
    Returned /\ ret # <<>> =>
        LET L == disk.lines
        IN  /\ Len(L) >= 8
            /\ L[1] = <<"#", "TITLE", call.title>>
            /\ L[2] = <<"#", "ARTIST", call.artist>>
            /\ L[3] = <<"#", "MP3", call.audio_filename>>
            /\ IsHeaderLine(L[4]) /\ L[4][2] = "BPM"
            /\ 2 * Abs(L[4][3] * BpmDen - 10 * call.bpm) <= BpmDen
            /\ IsHeaderLine(L[5]) /\ L[5][2] = "GAP" /\ L[5][3] \in Nat
            /\ IsHeaderLine(L[6]) /\ L[6][2] = "END" /\ L[6][3] \in Nat
            /\ L[7] = <<>>
            /\ \A k \in 8..(Len(L) - 1) : IsEventLine(L[k])
            /\ IsEndLine(L[Len(L)])
            /\ \A k \in 1..(Len(L) - 1) : ~IsEndLine(L[k])

\* A finished document with a pause line and two note lines between the blank
\* line and the end marker, one of them with the text "E".
C7_Witness ==
    /\ Returned /\ ret # <<>>
    /\ Len(WrittenNoteLines) >= 2
    /\ \E k \in 1..Len(disk.lines) : IsPauseLine(disk.lines[k])
    /\ \E k \in 1..Len(WrittenNoteLines) : WrittenNoteLines[k][5] = "E"

\* ------------------------------------------------------------ claims: process_files
RunDone == ppc = "done"

\* C8: every note line produced by the pipeline smooth_pitch_data ->
\* generate_ultrastar_file is well formed: its start beat is an integer >= 0,
\* its duration an integer >= 1, its pitch index in 0..36.
C8_NoteLinesWellFormed ==
    \A k \in 1..Len(disk.lines) :
        IsNoteLine(disk.lines[k]) =>
            /\ disk.lines[k][2] \in Nat
            /\ disk.lines[k][3] \in Nat /\ disk.lines[k][3] >= 1
            /\ disk.lines[k][4] \in 0..36

\* A finished run whose chart holds two note lines, one of a pitch that was
\* limited to 0 from below and one of a higher pitch.
C8_Witness ==
    /\ RunDone /\ pf.result # <<>>
    /\ Len(WrittenNoteLines) = 2
    /\ WrittenNoteLines[1][4] = 0 /\ ultrastar_note(pf.pitch_data[1][2]) < 0
    /\ WrittenNoteLines[2][4] > 0
    /\ WrittenNoteLines[2][2] > WrittenNoteLines[1][2]

\* C9: if detect_pitch returns no samples, or smooth_pitch_data yields zero
\* notes, process_files returns None (here <<>>) and no chart file is created,
\* opened or modified during the run: the serializer is not entered.
C9_NoNotesNoFile ==
    RunDone /\ (pf.pitch_data = <<>> \/ pf.notes = <<>>) =>
        /\ pf.result = <<>>
        /\ disk = NoFile
        /\ pc = "idle"

\* A finished run in which samples were detected and passed the confidence
\* filter, and every group failed the minimum-duration filter.
C9_Witness ==
    /\ RunDone
    /\ Len(SelectSeq(pf.pitch_data, StrongPitch)) >= 2
    /\ pf.notes = <<>>
    /\ pf.result = <<>> /\ disk = NoFile

Raised == pc = "raised"
\* the call is over: it returned or an exception left it
CallOver == Returned \/ Raised

\* header, blank line, event lines and the end marker as the last line
CompleteDocument(L) ==
    /\ Len(L) >= 8
    /\ \A k \in 1..6 : IsHeaderLine(L[k])
    /\ L[7] = BlankLine
    /\ \A k \in 8..(Len(L) - 1) : IsEventLine(L[k])
    /\ IsEndLine(L[Len(L)])

\* the output path holds what it held before the first call
FileAsBefore ==
    /\ disk.exists = hist.prior.exists
    /\ disk.lines = hist.prior.lines

\* C11 as stated: the chart write is all-or-nothing: if opening or writing the
\* output file fails at any point of generate_ultrastar_file no partial file
\* is left, so when the call is over the output path holds a complete document
\* (header, blank line, events, end marker) or no document of that call.
C11_Original_AllOrNothing ==
    CallOver => FileAsBefore \/ CompleteDocument(disk.lines)

\* C12 as stated: a failed run never corrupts the output of an earlier
\* successful run: if a chart exists at the output path and the call fails
\* (it raises, or returns the empty string), the content of the file after it
\* equals its content before it.
C12_Original_PriorOutputKept ==
    hist.prior.exists /\ (Raised \/ (Returned /\ ret = <<>>)) => FileAsBefore

\* C16: calling generate_ultrastar_file twice with the same notes, lyrics,
\* title, artist, audio filename, bpm and beat_factor writes the same content
\* both times, and after the second call the file is as the first wrote it.
C16_SameContentTwice ==
    Len(hist.written) = 2 =>
        /\ hist.written[2] = hist.written[1]
        /\ (Returned => disk.lines = hist.written[1])

\* A second call that has returned, at a path that held an earlier chart,
\* with a pause line and two note lines in the file.
C16_Witness ==
    /\ Returned /\ Len(hist.written) = 2
    /\ hist.prior.exists /\ disk.opened = 2
    /\ Len(WrittenNoteLines) >= 2
    /\ \E k \in 1..Len(disk.lines) : IsPauseLine(disk.lines[k])

\* ------------------------------------------------------------ claims: reverse_engineer_timing
RefDone == rt.pc = "done"
\* a line of the chart whose number does not convert
ParseFails(lines) ==
    \E k \in 1..Len(lines) :
        /\ ~lines[k].ok
        /\ lines[k].kind \in {"#BPM:", "#GAP:"}
           \/ (lines[k].kind = ":" /\ lines[k].parts >= 4)

\* C17: reverse_engineer_timing never raises and always returns a beat_factor
\* in {1, 2, 4, 8}; it returns the default 4 whenever the reference file is
\* absent, unreadable, or fails to parse at any line, also when header fields
\* or notes were read before the failing line.
C17_FactorAlwaysDefaultOnFailure ==
    RefDone =>
        /\ rt.beat_factor \in {1, 2, 4, 8}
        /\ (\/ ~rt.reference.named \/ ~rt.reference.exists
            \/ ~rt.reference.readable
            \/ ParseFails(rt.reference.lines))
           => rt.beat_factor = 4

\* A reference chart whose first four lines give a tempo, a gap and two notes
\* that alone yield a factor other than 4, and whose fifth line fails to
\* parse: the result is the default.
C17_Witness ==
    /\ RefDone /\ rt.reference.readable
    /\ Len(rt.reference.lines) = 5
    /\ ~ParseFails(SubSeq(rt.reference.lines, 1, 4))
    /\ reverse_engineer_timing(ReferenceChart(SubSeq(rt.reference.lines, 1, 4)))
          \in {1, 2, 8}
    /\ ~rt.reference.lines[5].ok
    /\ rt.beat_factor = 4

\* ------------------------------------------------------------ claims: missing input
ReferenceMissing == env.reference.named /\ ~env.reference.exists
\* separate_vocals, the first computation step, has been executed and has
\* returned
ComputationStarted ==
    ppc \in {"bpm", "pitch", "smooth", "lyrics", "generate", "done"}

\* C13 as stated: when the audio file or the reference file named for a run
\* does not exist, the run is aborted before any computation step (vocal
\* separation, tempo estimation, pitch detection) is executed.
C13_Original_MissingInputAborts ==
    ~env.audio_exists \/ ReferenceMissing => ~ComputationStarted

\* C13 amended: when the audio file named for a run of main does not exist,
\* the run is aborted before process_files is entered, so before any
\* computation step; when the reference file does not exist the run is not
\* aborted: it goes on with the default beat_factor 4.
C13_MissingAudioAborts ==
    /\ ~env.audio_exists =>
          /\ ppc \in {"main", "aborted"}
          /\ pf = NoRun /\ disk = NoFile /\ pc = "idle"
    /\ env.audio_exists /\ ReferenceMissing /\ ppc \notin {"main", "start"} =>
          pf.beat_factor = 4

\* A run aborted by main because its audio file does not exist.
C13_Witness ==
    /\ ~env.audio_exists
    /\ ppc = "aborted"
    /\ pf = NoRun /\ disk = NoFile

\* ------------------------------------------------------------ claims: smooth_pitch_data
SmoothDone == sp.pc = "done"
\* the samples of the groups, in order, as <<time, frequency, confidence>>
RECURSIVE GroupedSamples(_)
GroupedSamples(groups) ==
    IF groups = <<>> THEN <<>>
    ELSE GroupedSamples(SubSeq(groups, 1, Len(groups) - 1))
         \o [k \in 1..Len(groups[Len(groups)]) |->
                <<groups[Len(groups)][k][1], groups[Len(groups)][k][2],
                  groups[Len(groups)][k][4]>>]
\* a stream of one frequency, every confidence above 0.25, every time gap at
\* most 0.3 s, spanning 1.0 s
SteadyStream(pitch_data) ==
    /\ Len(pitch_data) >= 2
    /\ \A k \in 1..Len(pitch_data) :
          /\ pitch_data[k][2] = pitch_data[1][2]
          /\ pitch_data[k][3] > 25
    /\ \A k \in 1..(Len(pitch_data) - 1) :
          pitch_data[k + 1][1] - pitch_data[k][1] <= Ms(300)
    /\ pitch_data[Len(pitch_data)][1] - pitch_data[1][1] = Ms(1000)

\* C14: a time-ordered stream of one constant frequency, confidence above the
\* threshold, every consecutive time gap <= 0.3 s and a span of 1.0 s yields
\* exactly one note: its start is the first timestamp, its duration the span,
\* its pitch the mapped index of the frequency.
C14_SteadyStreamOneNote ==
    SmoothDone /\ SteadyStream(sp.pitch_data) =>
        sp.notes = << <<sp.pitch_data[1][1], Ms(1000),
                       frequency_to_midi(sp.pitch_data[1][2])>> >>

\* A steady stream with three gaps of exactly 0.3 s that gave one note.
C14_Witness ==
    /\ SmoothDone /\ SteadyStream(sp.pitch_data)
    /\ Len(sp.pitch_data) = 5
    /\ \A k \in 1..3 : sp.pitch_data[k + 1][1] - sp.pitch_data[k][1] = Ms(300)
    /\ Len(sp.notes) = 1 /\ sp.notes[1][2] = Ms(1000) /\ sp.notes[1][3] = 9

\* the stream [(0.0,220,0.9), (0.1,220,0.9), (0.2,220,0.9), (0.6,440,0.9)]
ExampleStream ==
    << <<Ms(0), 220, 90>>, <<Ms(100), 220, 90>>, <<Ms(200), 220, 90>>,
       <<Ms(600), 440, 90>> >>

\* C15: for the stream [(0.0,220,0.9), (0.1,220,0.9), (0.2,220,0.9),
\* (0.6,440,0.9)] and min_duration 0.2 s, smooth_pitch_data forms two groups
\* (the first three samples; the last sample alone), drops the group of one
\* sample, whose span is 0, and returns one note from 0.0 s to 0.2 s: a group
\* whose span equals min_duration is kept.
C15_ExampleStreamOneNote ==
    SmoothDone /\ sp.pitch_data = ExampleStream /\ sp.min_duration = Ms(200) =>
        /\ Len(sp.groups) = 2
        /\ GroupedSamples(<<sp.groups[1]>>) = SubSeq(ExampleStream, 1, 3)
        /\ GroupedSamples(<<sp.groups[2]>>) = SubSeq(ExampleStream, 4, 4)
        /\ Len(sp.notes) = 1
        /\ sp.notes[1][1] = Ms(0) /\ sp.notes[1][2] = Ms(200)

\* The call on the example stream with min_duration 0.2 s has returned its
\* one note.
C15_Witness ==
    /\ SmoothDone /\ sp.pitch_data = ExampleStream /\ sp.min_duration = Ms(200)
    /\ sp.notes = << <<Ms(0), Ms(200), 9>> >>

\* two samples next to each other in the scan are put in one group
JoinWanted(a, b) ==
    /\ b[1] - a[1] <= Ms(300)
    /\ Abs(frequency_to_midi(b[2]) - frequency_to_midi(a[2])) <= 2

\* C18: a retained sample joins the current open group if and only if its
\* timestamp minus the group's last timestamp is <= 0.3 s and its mapped
\* pitch index differs from the group's last mapped index by <= 2; otherwise
\* the group is closed and a new group starts at that sample.  So the groups
\* are the retained samples in order, two neighbours inside a group satisfy
\* both conditions, and the last sample of a group and the first of the next
\* fail one of them.
C18_JoinIffCloseInTimeAndPitch ==
    SmoothDone =>
        /\ \A g \in 1..Len(sp.groups) :
              /\ sp.groups[g] # <<>>
              /\ \A k \in 1..(Len(sp.groups[g]) - 1) :
                    JoinWanted(sp.groups[g][k], sp.groups[g][k + 1])
        /\ \A g \in 1..(Len(sp.groups) - 1) :
              ~JoinWanted(sp.groups[g][Len(sp.groups[g])], sp.groups[g + 1][1])
        /\ \A g \in 1..Len(sp.groups) : \A k \in 1..Len(sp.groups[g]) :
              sp.groups[g][k][3] = frequency_to_midi(sp.groups[g][k][2])
        /\ Len(GroupedSamples(sp.groups)) <= Len(sp.pitch_data)
        /\ \A k \in 1..Len(GroupedSamples(sp.groups)) :
              \E j \in k..Len(sp.pitch_data) :
                  sp.pitch_data[j] = GroupedSamples(sp.groups)[k]

\* A scan with three groups: a sample joined at a time gap of exactly 0.3 s
\* and one at a pitch difference of exactly 2, one split by a pitch jump with
\* a short time gap, and one split by a time gap with no pitch difference.
C18_Witness ==
    /\ SmoothDone /\ Len(sp.groups) = 3
    /\ \E g \in 1..3 : \E k \in 1..(Len(sp.groups[g]) - 1) :
          sp.groups[g][k + 1][1] - sp.groups[g][k][1] = Ms(300)
    /\ \E g \in 1..3 : \E k \in 1..(Len(sp.groups[g]) - 1) :
          Abs(sp.groups[g][k + 1][3] - sp.groups[g][k][3]) = 2
    /\ \E g \in 1..2 :
          /\ sp.groups[g + 1][1][1] - sp.groups[g][Len(sp.groups[g])][1] <= Ms(300)
          /\ Abs(sp.groups[g + 1][1][3] - sp.groups[g][Len(sp.groups[g])][3]) > 2
    /\ \E g \in 1..2 :
          /\ sp.groups[g + 1][1][1] - sp.groups[g][Len(sp.groups[g])][1] > Ms(300)
          /\ sp.groups[g + 1][1][3] = sp.groups[g][Len(sp.groups[g])][3]

\* last timestamp - first timestamp of a group
GroupSpan(group) == group[Len(group)][1] - group[1][1]
\* the group is long enough for the call at hand
KeptGroup(group) == GroupSpan(group) >= sp.min_duration
\* the sum of confidence, and of mapped index times confidence, of a group
GroupWeight(group) == SeqSum([k \in 1..Len(group) |-> group[k][4]])
GroupWeightedSum(group) ==
    SeqSum([k \in 1..Len(group) |-> group[k][3] * group[k][4]])

\* C19: every group that is closed, at a split or as the last open group at
\* the end of the input, is dropped if last timestamp - first timestamp <
\* min_duration and otherwise yields exactly one note: start = first
\* timestamp, duration = span, pitch = the confidence-weighted average of the
\* mapped indices, rounded to the nearest integer and limited to 0..36.  The
\* notes are those of the kept groups, in order, the last group included.
C19_ClosedGroupDroppedOrOneNote ==
    SmoothDone =>
        LET kept == SelectSeq(sp.groups, KeptGroup)
        IN  /\ Len(sp.notes) = Len(kept)
            /\ \A n \in 1..Len(kept) :
                  /\ sp.notes[n][1] = kept[n][1][1]
                  /\ sp.notes[n][2] = GroupSpan(kept[n])
                  /\ sp.notes[n][3] \in 0..36
                  /\ 2 * Abs(sp.notes[n][3] * GroupWeight(kept[n])
                             - GroupWeightedSum(kept[n]))
                        <= GroupWeight(kept[n])

\* A scan whose first group was too short and left no note, and whose last
\* group, closed at the end of the input, gave a note whose pitch is the
\* weighted and not the plain average of its mapped indices.
C19_Witness ==
    /\ SmoothDone /\ Len(sp.groups) >= 2
    /\ ~KeptGroup(sp.groups[1])
    /\ KeptGroup(sp.groups[Len(sp.groups)])
    /\ LET last == sp.groups[Len(sp.groups)]
       IN  /\ sp.notes[Len(sp.notes)][1] = last[1][1]
           /\ 2 * Abs(sp.notes[Len(sp.notes)][3] * Len(last)
                      - SeqSum([k \in 1..Len(last) |-> last[k][3]])) > Len(last)

\* the sample's confidence is at the threshold 0.25 or above
AtThresholdOrAbove(sample) == sample[3] >= 25
\* the sample's confidence is above the threshold 0.25
AboveThreshold(sample) == sample[3] > 25

\* C20 as stated: smooth_pitch_data discards exactly the samples whose
\* confidence is below 0.25: a sample at the threshold or above always takes
\* part in the grouping.
C20_Original_KeptAtThreshold ==
    SmoothDone =>
        GroupedSamples(sp.groups) = SelectSeq(sp.pitch_data, AtThresholdOrAbove)

\* C20 amended: smooth_pitch_data discards exactly the samples whose
\* confidence is 0.25 or below: a sample takes part in the grouping if and
\* only if its confidence is above 0.25.
C20_KeptAboveThreshold ==
    SmoothDone =>
        GroupedSamples(sp.groups) = SelectSeq(sp.pitch_data, AboveThreshold)

\* A stream with a sample of confidence exactly 0.25, one below it and two
\* above it: the two take part in the grouping, the others do not.
C20_Witness ==
    /\ SmoothDone
    /\ \E k \in 1..Len(sp.pitch_data) : sp.pitch_data[k][3] = 25
    /\ \E k \in 1..Len(sp.pitch_data) : sp.pitch_data[k][3] < 25
    /\ Len(GroupedSamples(sp.groups)) = 2
    /\ Len(sp.pitch_data) >= 4

\* ------------------------------------------------------------ claims: lyrics and pauses
\* C21: generate_ultrastar_file assigns the lyrics to the beat-sorted notes
\* in order: the note at index i gets lyrics[i] while i < len(lyrics), so no
\* syllable is used twice or skipped; when the syllables have run out a note
\* gets the placeholder '~' if its index is a multiple of 20 and empty text
\* otherwise.
C21_LyricsInOrderThenStride ==
    /\ \A k \in 1..Len(log) :
          /\ log[k].i = k - 1
          /\ log[k].beat = loc.beat_notes[k][1]
          /\ (k > 1 => log[k].beat >= log[k - 1].beat)
          /\ log[k].text =
                IF k - 1 < Len(call.lyrics) THEN call.lyrics[k]
                ELSE IF (k - 1) % 20 = 0 THEN "~"
                ELSE ""
    /\ pc = "loop" => loc.lyrics_index = Min(loc.i, Len(call.lyrics))

\* A finished call on 21 or more notes given in descending order of time,
\* with two syllables, the second empty: the first two notes got the
\* syllables, the notes after them no text, and the note at index 20 the
\* placeholder.
C21_Witness ==
    /\ Returned /\ Len(log) >= 21
    /\ call.notes[1][1] > call.notes[2][1]
    /\ Len(call.lyrics) = 2 /\ call.lyrics[2] = ""
    /\ log[1].text = call.lyrics[1] /\ log[1].text # ""
    /\ log[2].text = "" /\ log[3].text = ""
    /\ log[21].text = "~"
    /\ Len(WrittenNoteLines) = 2

\* the end beat of the note handled before the k-th one
PrevEnd(k) == log[k - 1].beat + log[k - 1].duration
PauseRule(k) ==
    /\ log[k].paused <=> log[k].beat - PrevEnd(k) > 10
    /\ log[k].paused =>
          /\ log[k].lines[1] = PauseLine(PrevEnd(k) + 1)
          /\ PrevEnd(k) + 1 > PrevEnd(k)
          /\ PrevEnd(k) + 1 <= log[k].beat
    /\ ~log[k].paused => \A j \in 1..Len(log[k].lines) : ~IsPauseLine(log[k].lines[j])

\* C22: a pause line is written only between two consecutive notes, and
\* exactly when the start beat of the next note minus the end beat of the
\* previous one exceeds 10; its beat is the previous note's end beat + 1,
\* after the previous note's end and not after the next note's start.
C22_Original_PauseOnlyBetweenNotes ==
    \A k \in 1..Len(log) :
        /\ k = 1 => ~log[k].paused
        /\ k > 1 => PauseRule(k)

\* The part of C22 about the notes that have a note before them.
C22_PauseRuleAfterFirstNote ==
    \A k \in 2..Len(log) : PauseRule(k)

\* ------------------------------------------------------------ claims: notes of the grouper
\* C30: for samples in ascending time order smooth_pitch_data splits the
\* retained samples (confidence above 0.25) into consecutive groups, every
\* retained sample in exactly one group, and returns notes in strictly
\* ascending start time that do not overlap: every note starts later than
\* the start + duration of the note before it.
C30_GroupsPartitionNotesApart ==
    SmoothDone =>
        /\ GroupedSamples(sp.groups) = SelectSeq(sp.pitch_data, StrongPitch)
        /\ \A g \in 1..Len(sp.groups) : Len(sp.groups[g]) >= 1
        /\ \A n \in 2..Len(sp.notes) :
              /\ sp.notes[n][1] > sp.notes[n - 1][1]
              /\ sp.notes[n][1] > sp.notes[n - 1][1] + sp.notes[n - 1][2]

\* Five samples in three groups, the one in the middle dropped as too short:
\* two notes, the second starting after the end of the first.
C30_Witness ==
    /\ SmoothDone /\ Len(sp.pitch_data) = 5
    /\ Len(sp.groups) = 3 /\ Len(sp.notes) = 2
    /\ Len(sp.groups[2]) = 1
    /\ sp.notes[1][2] > 0
    /\ sp.notes[2][1] > sp.notes[1][1] + sp.notes[1][2]

\* ------------------------------------------------------------ claims: parse_lyrics
LyricsDone == pl.pc = "done"
HasTimestamp(word) == \E k \in 1..Len(word) : TimestampAt(word, k) > 0
HasSpace(word) == \E k \in 1..Len(word) : IsSpace(word[k])
RECURSIVE Flatten(_)
Flatten(words) == IF words = <<>> THEN <<>> ELSE words[1] \o Flatten(Tail(words))
\* text is what is left of whole when some of its pieces are taken out
RECURSIVE IsSubsequence(_, _)
IsSubsequence(text, whole) ==
    IF text = <<>> THEN TRUE
    ELSE IF whole = <<>> THEN FALSE
    ELSE IF text[1] = whole[1] THEN IsSubsequence(Tail(text), Tail(whole))
    ELSE IsSubsequence(text, Tail(whole))

\* C24: parse_lyrics removes every timestamp [MM:SS] or [MM:SS.ff] before it
\* splits at whitespace, so no returned syllable contains such a timestamp or
\* whitespace, and the syllables keep the word order of the file; when the
\* file cannot be read the result is the empty list.
C24_Original_NoTimestampInSyllables ==
    LyricsDone =>
        /\ \A k \in 1..Len(pl.syllables) :
              /\ ~HasTimestamp(pl.syllables[k])
              /\ ~HasSpace(pl.syllables[k])
              /\ pl.lyrics[k] = JoinPieces(pl.syllables[k])
        /\ Len(pl.lyrics) = Len(pl.syllables)
        /\ IsSubsequence(Flatten(pl.syllables), pl.content)
        /\ pl.raised => pl.lyrics = <<>>

\* ------------------------------------------------------------ claims: round trip
\* what the k-th event line of the file says
WrittenEvent(line) ==
    IF IsPauseLine(line) THEN ParsedNote("-", line[2], 0, 0, <<>>)
    ELSE ParsedNote(line[1], line[2], line[3], line[4], <<line[5]>>)

\* C29: UltraStarParser.parse_file on a file written by
\* generate_ultrastar_file gives back every event line, in file order, with
\* its type, beat, duration, pitch and text (a pause as type '-' with its
\* beat), and the values of the BPM and GAP headers as they were written.
C29_ParseGivesBackEvents ==
    Returned /\ ret # <<>> =>
        LET parsed == parse_file(FileText(disk.lines))
        IN  /\ ~parsed.raised
            /\ Len(parsed.notes) = Len(EventLines)
            /\ \A k \in 1..Len(EventLines) :
                  parsed.notes[k] = WrittenEvent(EventLines[k])
            /\ parsed.metadata[<<"BPM">>] = BpmText(FormatBpm(call.bpm))
            /\ parsed.metadata[<<"GAP">>] = Digits(loc.gap_ms)
            /\ NatOf(parsed.metadata[<<"GAP">>]) = loc.gap_ms

\* A finished file with a pause line at a beat of two digits or more, note
\* lines of both types, a placeholder note and a GAP of 700.
C29_Witness ==
    /\ Returned /\ ret # <<>>
    /\ loc.gap_ms = 700
    /\ \E k \in 1..Len(EventLines) :
          IsPauseLine(EventLines[k]) /\ EventLines[k][2] >= 10
    /\ \E k \in 1..Len(EventLines) :
          IsNoteLine(EventLines[k]) /\ EventLines[k][1] = ":" /\ EventLines[k][5] = "la"
    /\ \E k \in 1..Len(EventLines) :
          IsNoteLine(EventLines[k]) /\ EventLines[k][1] = "*" /\ EventLines[k][4] >= 10
    /\ \E k \in 1..Len(EventLines) :
          IsNoteLine(EventLines[k]) /\ EventLines[k][5] = "~" /\ EventLines[k][2] >= 90
    /\ Len(parse_file(FileText(disk.lines)).notes) >= 4

\* ------------------------------------------------------------ claims: the GUI
WorkerRunning(id) == wk[id].pc # "ended"
RunningWorkers == {id \in 1..Len(wk) : WorkerRunning(id)}

\* C25: in the GUI at most one generation worker runs at any time:
\* start_generation starts no worker while a run is in progress, and
\* processing is True from the accepted press until reset_ui has run.
C25_OneWorkerAtATime ==
    /\ Cardinality(RunningWorkers) <= 1
    /\ RunningWorkers # {} => ui.processing /\ RunningWorkers = {Len(wk)}
    /\ ui.processing <=> (runs # <<>> /\ ~runs[Len(runs)].reset)
    /\ \A id \in 1..(Len(runs) - 1) : runs[id].reset
    /\ Len(wk) = Len(runs)

\* The worker of a second run is at work after the first run was reset; a
\* press now would be ignored.
C25_Witness ==
    /\ Len(wk) = 2 /\ wk[1].pc = "ended" /\ runs[1].reset
    /\ wk[2].pc = "smooth"
    /\ ui.processing /\ ~AcceptsPress(ui.processing)
    /\ ui.audio # NoSelection /\ PathExists(ui.audio)

\* C26: the worker runs the pipeline on the inputs that start_generation
\* validated: the audio, lyrics and reference selections it reads are those
\* of the moment the press was accepted, whatever the UI thread does in
\* between (reset_form, clear_file, on_file_selected).
C26_Original_WorkerReadsValidated ==
    \A id \in 1..Len(runs) :
        runs[id].read # <<>> => runs[id].read = runs[id].validated

\* the dialogs that the result of a run calls for
OutcomeDialogs(result) == IF result = "path" THEN <<"success">> ELSE <<"error">>

\* C27: every accepted run in the end shows exactly one outcome, the success
\* dialog with progress 100 if and only if process_files returned a path and
\* the error dialog otherwise, and then runs reset_ui, after which
\* processing is False and the button is enabled; also when the pipeline
\* returns None or raises.
C27_Original_OutcomeThenReset ==
    \A id \in 1..MaxGuiRuns :
        (Len(runs) >= id) ~>
            /\ Len(runs) >= id
            /\ runs[id].reset
            /\ runs[id].dialogs = OutcomeDialogs(runs[id].result)
            /\ runs[id].progress_100 <=> runs[id].result = "path"

\* C28: from the accepted press to reset_ui the value of the progress bar
\* never decreases, whatever the UI thread does in between.
C28_Original_ProgressNeverDecreases ==
    [][ui.processing /\ ui'.processing => ui'.progress >= ui.progress]_vars

\* ------------------------------------------------------------ claims: GAP
HeaderWritten == pc = "loop" \/ (pc = "returned" /\ ret # <<>>)
WrittenGap == disk.lines[5][3]
FirstNoteTime == call.notes[1][1]

\* C23: the GAP written to the header is max(0, floor(start of the first
\* note of the input list in ms) - 500): a non-negative integer that is not
\* later than that start, so the first note's start is quantized to a beat
\* at or after 0 without being clamped from a negative value.
C23_GapBeforeFirstNote ==
    HeaderWritten =>
        /\ disk.lines[5] = HeaderLine("GAP", Max(0, (FirstNoteTime \div UnitsPerMs) - 500))
        /\ WrittenGap \in Nat
        /\ WrittenGap * UnitsPerMs <= FirstNoteTime
        /\ LET beat == time_to_beats(FirstNoteTime, call.bpm, WrittenGap,
                                     call.beat_factor)
           IN  /\ beat >= 0
               /\ beat = time_to_beats_unclamped(FirstNoteTime, call.bpm, WrittenGap,
                                                 call.beat_factor)
               /\ \E k \in 1..Len(loc.beat_notes) : loc.beat_notes[k][1] = beat

\* A finished file for a list whose first note starts a fraction of a
\* millisecond after 1200 ms: GAP is 700, and the note is at a beat after 0.
C23_Witness ==
    /\ Returned /\ HeaderWritten
    /\ FirstNoteTime % UnitsPerMs # 0
    /\ FirstNoteTime > Ms(1200) /\ FirstNoteTime < Ms(1201)
    /\ WrittenGap = 700
    /\ loc.beat_notes[1][1] > 0

=============================================================================
